---- MODULE Spec2Model ----
(***************************************************************************)
(* The reconciliation pipeline of app.py: process_status_data,             *)
(* process_rastreabilidade_data, process_estoque_data and the merge of     *)
(* process_data, over tables whose cells are strings or null, as read_file *)
(* loads them (dtype=str, object columns).                                 *)
(*                                                                         *)
(* A string is the sequence of its characters; a null cell is NaN.  A      *)
(* number is <<h>> with h the value counted in halves (so that 2.5 is      *)
(* <<5>>: every sum of such values is exact in float64), and <<>> is the   *)
(* float NaN.  A table is [columns |-> set of names, rows |-> sequence of  *)
(* records over those names].  Column names are written in ASCII:          *)
(* Descricao, QuantidadeNaoAlocada, Endereco, EnderecoOrigem,              *)
(* EnderecoDestino, QtdEmEstoque, QtdAtual.                                *)
(***************************************************************************)
EXTENDS Integers, Sequences, FiniteSets, TLC

VARIABLES
    status_file,                \* the file in the uploader "1. Status_da_Ordem", None when empty
    rastreabilidade_file,       \* the file in the uploader "2. Consulta_Rastreabilidade"
    estoque_file,               \* the file in the uploader "3. Consulta_de_Estoque"
    df_status,                  \* process_data: the loaded status table
    df_rastreabilidade,         \* process_data: the loaded traceability table
    df_estoque,                 \* process_data: the loaded stock table
    pc,                         \* the stage process_data is about to run; "idle" between script runs
    df_status_processed,        \* result of process_status_data
    df_melted,                  \* process_rastreabilidade_data: (Item, Endereco) rows before filtering
    enderecos_rastreabilidade,  \* result of process_rastreabilidade_data
    itens_status,               \* df_status_processed['Item'].unique()
    df_estoque_detalhado,       \* process_estoque_data: df_estoque_grouped
    enderecos_estoque,          \* process_estoque_data: address list per item
    df_merged,                  \* process_data: status rows with the three address lists
    df_final,                   \* what process_data returns
    messages,                   \* the messages shown by the script run, in order
    raised,                     \* the exceptions that left a function during the script run
    cache,                      \* the st.cache_data entries of every function
    session_state,              \* st.session_state: clear_count, and final_report when stored
    download_offered,           \* the last script run showed the download section
    last_interaction,           \* what the last finished script run was started by
    now,                        \* datetime.now(), in whole seconds
    lru,                        \* the lru_cache of standardize_column_name, least recently used first
    calls,                      \* the calls of the library functions made so far, with what each returned
    argv,                       \* cli.py: the parsed command line
    cli_pc,                     \* cli.py: where main is
    checked,                    \* cli.py: the validation checks made so far, in order
    exit_status,                \* cli.py: the exit status of the process, None while it runs
    processor                   \* cli.py: the RastreabilidadeProcessor, None until created

locals == <<df_status, df_rastreabilidade, df_estoque, df_status_processed,
            df_melted, enderecos_rastreabilidade, itens_status,
            df_estoque_detalhado, enderecos_estoque, df_merged, df_final>>
uploads == <<status_file, rastreabilidade_file, estoque_file>>
app_vars == <<uploads, pc, locals, messages, raised, cache, session_state,
              download_offered, last_interaction>>
call_vars == <<now, lru, calls>>
cli_vars == <<argv, cli_pc, checked, exit_status, processor>>
vars == <<app_vars, call_vars, cli_vars>>

(***************************************************************************)
(* Bounds of the checked inputs.                                           *)
(***************************************************************************)
MaxStatusRows == 2
MaxRastreabilidadeRows == 2
MaxEstoqueRows == 2
MaxReportInputRows == 4
MaxClears == 1

(***************************************************************************)
(* Values.                                                                 *)
(***************************************************************************)
NaN == <<"NaN">>
None == [none |-> TRUE]
NotRun == [notrun |-> TRUE]
Raised(e) == [raised |-> e]

IsTable(v) == DOMAIN v = {"columns", "rows"}
IsRaised(v) == DOMAIN v = {"raised"}

\* The characters of the modelled cells, in code point order.
CharOrder == <<"-", ".", "0", "1", "2", "3", "4", "5", "6", "7", "8", "9",
               "A", "B", "D", "I", "V", "a", "x">>
Code(c) == CHOOSE i \in 1..Len(CharOrder) : CharOrder[i] = c
Digits == <<"0", "1", "2", "3", "4", "5", "6", "7", "8", "9">>
IsDigit(c) == \E i \in 1..10 : Digits[i] = c
DigitValue(c) == (CHOOSE i \in 1..10 : Digits[i] = c) - 1

\* Python's str < str: lexicographic by code point.
RECURSIVE StrLess(_, _)
StrLess(s, t) ==
    IF s = <<>> THEN t # <<>>
    ELSE IF t = <<>> THEN FALSE
    ELSE IF Head(s) = Head(t) THEN StrLess(Tail(s), Tail(t))
    ELSE Code(Head(s)) < Code(Head(t))

\* startswith that takes "a" for "A".
startswith_ignorecase(s, prefix) ==
    /\ s # NaN
    /\ Len(s) >= Len(prefix)
    /\ [i \in 1..Len(prefix) |-> IF s[i] = "a" THEN "A" ELSE s[i]] = prefix

\* Series.str.startswith(prefix, na=False)
startswith(s, prefix) ==
    /\ s # NaN
    /\ Len(s) >= Len(prefix)
    /\ SubSeq(s, 1, Len(prefix)) = prefix

A0 == <<"A", "0">>
VIDA == <<"V", "I", "D", "A">>

\* sorted(set(xs)) of a Python list of strings
RECURSIVE SortSet(_)
SortSet(S) ==
    IF S = {} THEN <<>>
    ELSE LET m == CHOOSE a \in S : \A b \in S : a = b \/ StrLess(a, b)
         IN  <<m>> \o SortSet(S \ {m})

Range(s) == {s[i] : i \in 1..Len(s)}

\* str(n) of an int n >= 0
RECURSIVE IntToStr(_)
IntToStr(n) ==
    IF n < 10 THEN <<Digits[n + 1]>>
    ELSE IntToStr(n \div 10) \o <<Digits[(n % 10) + 1]>>

\* int(digits) of a non-empty sequence of digits
RECURSIVE DigitsToInt(_)
DigitsToInt(ds) ==
    IF Len(ds) = 1 THEN DigitValue(ds[1])
    ELSE 10 * DigitsToInt(SubSeq(ds, 1, Len(ds) - 1)) + DigitValue(ds[Len(ds)])

AllDigits(ds) == ds # <<>> /\ \A i \in 1..Len(ds) : IsDigit(ds[i])

\* The float a decimal literal without sign denotes, in halves; <<>> when it
\* is no number.  Of the fractions only .0 and .5 are in the modelled cells.
ParseUnsigned(s) ==
    LET dots == {i \in 1..Len(s) : s[i] = "."}
    IN  IF dots = {} THEN
            IF AllDigits(s) THEN <<2 * DigitsToInt(s)>> ELSE <<>>
        ELSE LET d == CHOOSE i \in dots : TRUE
                 int == SubSeq(s, 1, d - 1)
                 frac == SubSeq(s, d + 1, Len(s))
             IN  IF Cardinality(dots) = 1 /\ AllDigits(int) /\ AllDigits(frac)
                 THEN <<2 * DigitsToInt(int)
                         + CASE frac = <<"0">> -> 0 [] frac = <<"5">> -> 1>>
                 ELSE <<>>

\* pd.to_numeric(cell, errors='coerce')
to_numeric(cell) ==
    IF cell = NaN \/ cell = <<>> THEN <<>>
    ELSE IF Head(cell) = "-" THEN
        LET u == ParseUnsigned(Tail(cell)) IN IF u = <<>> THEN <<>> ELSE <<-u[1]>>
    ELSE ParseUnsigned(cell)

\* x > 0 on a float column: NaN compares False
GreaterThanZero(x) == x # <<>> /\ x[1] > 0

\* Series.fillna(0)
fillna0(x) == IF x = <<>> THEN <<0>> ELSE x

\* float -> int rounding half up instead of truncating.
astype_int_round(x) == (x[1] + 1) \div 2

\* float -> int as astype(int) does it: truncation toward zero
astype_int(x) == IF x[1] >= 0 THEN x[1] \div 2 ELSE -((-x[1]) \div 2)

\* The sequences over S of 1 to n elements.
BoundedSeq(S, n) == UNION {[1..k -> S] : k \in 1..n}

(***************************************************************************)
(* Header strings.  A character is a one-character string; "c~" and "a~"   *)
(* stand for the c with cedilla and the a with tilde, "C~" and "A~" for    *)
(* their capitals.                                                         *)
(***************************************************************************)
LowerCase == <<"a", "b", "c", "d", "e", "f", "g", "h", "i", "j", "k", "l", "m",
               "n", "o", "p", "q", "r", "s", "t", "u", "v", "w", "x", "y", "z",
               "c~", "a~">>
UpperCase == <<"A", "B", "C", "D", "E", "F", "G", "H", "I", "J", "K", "L", "M",
               "N", "O", "P", "Q", "R", "S", "T", "U", "V", "W", "X", "Y", "Z",
               "C~", "A~">>
IsLower(c) == \E i \in 1..Len(LowerCase) : LowerCase[i] = c
IsUpper(c) == \E i \in 1..Len(UpperCase) : UpperCase[i] = c
IsCased(c) == IsLower(c) \/ IsUpper(c)
upper(c) == IF IsLower(c) THEN UpperCase[CHOOSE i \in 1..Len(LowerCase) : LowerCase[i] = c]
            ELSE c
lower(c) == IF IsUpper(c) THEN LowerCase[CHOOSE i \in 1..Len(UpperCase) : UpperCase[i] = c]
            ELSE c

\* str.strip(): the blanks at both ends removed
strip(s) ==
    LET I == {i \in 1..Len(s) : s[i] # " "}
    IN  IF I = {} THEN <<>>
        ELSE SubSeq(s, CHOOSE i \in I : \A j \in I : i <= j,
                       CHOOSE i \in I : \A j \in I : j <= i)

\* The header with the blanks at both ends removed and nothing else done.
title_skipped(s) == s

\* str.title(): a cased character is capitalised when the character before
\* it is not cased, and lowered when it is
title(s) ==
    [i \in 1..Len(s) |-> IF i > 1 /\ IsCased(s[i - 1]) THEN lower(s[i]) ELSE upper(s[i])]

\* str.endswith(suffix)
endswith(s, suffix) ==
    /\ Len(s) >= Len(suffix)
    /\ SubSeq(s, Len(s) - Len(suffix) + 1, Len(s)) = suffix

\* The headers the stages look for, as they are spelled in app.py.
H_Item == <<"I", "t", "e", "m">>
H_Descricao == <<"D", "e", "s", "c", "r", "i", "c~", "a~", "o">>
H_QuantidadeNaoAlocada ==
    <<"Q", "u", "a", "n", "t", "i", "d", "a", "d", "e", " ", "N", "a~", "o", " ",
      "A", "l", "o", "c", "a", "d", "a">>
H_Endereco == <<"E", "n", "d", "e", "r", "e", "c~", "o">>
H_EnderecoOrigem == H_Endereco \o <<" ", "O", "r", "i", "g", "e", "m">>
H_EnderecoDestino == H_Endereco \o <<" ", "D", "e", "s", "t", "i", "n", "o">>
H_QtdEmEstoque == <<"Q", "t", "d", " ", "e", "m", " ", "E", "s", "t", "o", "q", "u", "e">>
H_QtdAtual == <<"Q", "t", "d", " ", "A", "t", "u", "a", "l">>
\* 'Qtd em Estoque' as str.title() leaves it
H_QtdEmEstoqueTitled ==
    <<"Q", "t", "d", " ", "E", "m", " ", "E", "s", "t", "o", "q", "u", "e">>
\* The spellings without diacritics that the synonym table maps.
H_Description == <<"D", "e", "s", "c", "r", "i", "p", "t", "i", "o", "n">>
H_Descricao_ascii == <<"D", "e", "s", "c", "r", "i", "c", "a", "o">>
H_Endereco_ascii == <<"E", "n", "d", "e", "r", "e", "c", "o">>
H_EnderecoOrigem_ascii == H_Endereco_ascii \o <<" ", "O", "r", "i", "g", "e", "m">>
H_EnderecoDestino_ascii == H_Endereco_ascii \o <<" ", "D", "e", "s", "t", "i", "n", "o">>
H_QuantidadeNaoAlocada_ascii ==
    <<"Q", "u", "a", "n", "t", "i", "d", "a", "d", "e", " ", "N", "a", "o", " ",
      "A", "l", "o", "c", "a", "d", "a">>

\* The names the columns of a loaded table have in this module, in a fixed
\* order, and the header each stands for.
ColumnNames == <<"Item", "Descricao", "QuantidadeNaoAlocada", "Endereco",
                 "EnderecoOrigem", "EnderecoDestino", "QtdEmEstoque", "QtdAtual",
                 "QtdEmEstoqueTitled">>
Header(name) ==
    CASE name = "Item" -> H_Item
      [] name = "Descricao" -> H_Descricao
      [] name = "QuantidadeNaoAlocada" -> H_QuantidadeNaoAlocada
      [] name = "Endereco" -> H_Endereco
      [] name = "EnderecoOrigem" -> H_EnderecoOrigem
      [] name = "EnderecoDestino" -> H_EnderecoDestino
      [] name = "QtdEmEstoque" -> H_QtdEmEstoque
      [] name = "QtdAtual" -> H_QtdAtual
      [] name = "QtdEmEstoqueTitled" -> H_QtdEmEstoqueTitled
      [] OTHER -> <<"?">>
\* A header none of the stages looks for is the column "Other".
ColumnName(header) ==
    IF \E i \in 1..Len(ColumnNames) : Header(ColumnNames[i]) = header
    THEN ColumnNames[CHOOSE i \in 1..Len(ColumnNames) : Header(ColumnNames[i]) = header]
    ELSE "Other"

(***************************************************************************)
(* standardize_column_name                                                 *)
(***************************************************************************)
\* The synonym table, as <<key, value>> pairs.
replacements ==
    << <<H_Description, H_Descricao>>,
       <<H_Descricao_ascii, H_Descricao>>,
       <<H_Endereco_ascii, H_Endereco>>,
       <<H_EnderecoOrigem_ascii, H_EnderecoOrigem>>,
       <<H_EnderecoDestino_ascii, H_EnderecoDestino>>,
       <<H_QuantidadeNaoAlocada_ascii, H_QuantidadeNaoAlocada>> >>

\* replacements.get(col, col)
replacements_get(col) ==
    LET hits == {i \in 1..Len(replacements) : replacements[i][1] = col}
    IN  IF hits = {} THEN col ELSE replacements[CHOOSE i \in hits : TRUE][2]

standardize_column_name(col_name) == replacements_get(title(strip(col_name)))

(***************************************************************************)
(* Messages shown on the page (st.error, st.info, st.warning, st.success): *)
(* the call, the function that makes it, the missing columns its text      *)
(* names, and <<S>> when its text lists the columns S of the table.        *)
(***************************************************************************)
Msg(kind, at, names, columns) ==
    [kind |-> kind, at |-> at, names |-> names, columns |-> columns]

\* An exception that leaves the function it is raised in.
Exc(type, at) == [type |-> type, at |-> at]

(***************************************************************************)
(* read_file_cached and read_file.  An uploaded file is its name and what  *)
(* pd.read_csv and pd.read_excel do with its bytes: a table as parsed,     *)
(* [header |-> the headers, rows |-> the rows, cell by cell], or an        *)
(* exception.                                                              *)
(***************************************************************************)
\* read_file_cached without the loop that converts columns to category.
read_file_cached_no_ratio(file_content, file_name, file_type) ==
    LET df == IF file_type = "csv" THEN file_content.read_csv
              ELSE IF file_type \in {"xlsx", "xls"} THEN file_content.read_excel
              ELSE Raised("ValueError")
    IN  IF IsRaised(df) THEN None ELSE df

\* What the body of read_file_cached returns.  Every column is of dtype
\* object (dtype=str), so that a table with columns and without rows raises
\* ZeroDivisionError in the unique/total ratio; every exception gives None.
read_file_cached(file_content, file_name, file_type) ==
    LET df == IF file_type = "csv" THEN file_content.read_csv
              ELSE IF file_type \in {"xlsx", "xls"} THEN file_content.read_excel
              ELSE Raised("ValueError")
    IN  IF IsRaised(df) THEN None
        ELSE IF df.header # <<>> /\ df.rows = <<>> THEN None
        ELSE df

\* file_name.endswith('.csv') / file_name.endswith(('.xlsx', '.xls'))
file_type_of(file_name) ==
    IF endswith(file_name, <<".", "c", "s", "v">>) THEN "csv"
    ELSE IF endswith(file_name, <<".", "x", "l", "s", "x">>)
            \/ endswith(file_name, <<".", "x", "l", "s">>) THEN "xlsx"
    ELSE "unsupported"

\* df.columns = [standardize_column_name(col) for col in df.columns]: the
\* table under the names of its standardized headers.
standardized(df) ==
    LET names == [i \in 1..Len(df.header) |->
                     ColumnName(standardize_column_name(df.header[i]))]
    IN  [columns |-> Range(names),
         rows |-> [j \in 1..Len(df.rows) |->
                     [c \in Range(names) |->
                         df.rows[j][CHOOSE i \in 1..Len(names) : names[i] = c]]]]

\* The messages of read_file_cached and of read_file for one file.
read_file_messages(uploaded_file) ==
    IF uploaded_file = None THEN <<>>
    ELSE IF file_type_of(uploaded_file.name) = "unsupported"
         THEN <<Msg("error", "read_file", <<>>, <<>>)>>
    ELSE IF read_file_cached(uploaded_file.content, uploaded_file.name,
                             file_type_of(uploaded_file.name)) = None
         THEN <<Msg("error", "read_file_cached", <<>>, <<>>)>>
    ELSE <<>>

(***************************************************************************)
(* process_status_data                                                     *)
(***************************************************************************)
required_cols == <<"Item", "Descricao", "QuantidadeNaoAlocada">>

\* df_processed['Quantidade Nao Alocada'] = pd.to_numeric(..., errors='coerce')
StatusNumeric(rows) ==
    [i \in 1..Len(rows) |->
        [Item |-> rows[i].Item,
         Descricao |-> rows[i].Descricao,
         QuantidadeNaoAlocada |-> to_numeric(rows[i].QuantidadeNaoAlocada)]]

\* The filter with >= 0 for > 0.
StatusKeepNonNegative(r) ==
    r.QuantidadeNaoAlocada # <<>> /\ r.QuantidadeNaoAlocada[1] >= 0

\* df_processed[df_processed['Quantidade Nao Alocada'] > 0]
StatusKeep(r) == GreaterThanZero(r.QuantidadeNaoAlocada)

process_status_data(df) ==
    LET missing_cols == SelectSeq(required_cols, LAMBDA c : c \notin df.columns)
    IN  IF missing_cols # <<>> THEN None
        ELSE [columns |-> Range(required_cols),
              rows |-> SelectSeq(StatusNumeric(df.rows), StatusKeep)]

(***************************************************************************)
(* Frame operations shared by the two address paths.                       *)
(***************************************************************************)
\* The rows at the indices I, in index order.
RECURSIVE Pick(_, _)
Pick(rows, I) ==
    IF I = {} THEN <<>>
    ELSE LET m == CHOOSE i \in I : \A j \in I : i <= j
         IN  <<rows[m]>> \o Pick(rows, I \ {m})

\* DataFrame.dropna(subset=['Endereco'])
dropna_endereco(rows) == SelectSeq(rows, LAMBDA r : r.Endereco # NaN)

\* df[df['Endereco'].str.startswith('A0', na=False)]
filter_A0(rows) == SelectSeq(rows, LAMBDA r : startswith(r.Endereco, A0))

\* DataFrame.drop_duplicates(subset=['Item', 'Endereco']): the first of each pair stays
drop_duplicates(rows) ==
    Pick(rows, {i \in 1..Len(rows) :
                  \A j \in 1..(i - 1) :
                     <<rows[j].Item, rows[j].Endereco>> # <<rows[i].Item, rows[i].Endereco>>})

\* The rows left in the order they have.
sort_values_skipped(rows) == rows

\* DataFrame.sort_values('Endereco'), ascending
RECURSIVE sort_values(_)
sort_values(rows) ==
    IF rows = <<>> THEN <<>>
    ELSE LET n == Len(rows)
             s == sort_values(SubSeq(rows, 1, n - 1))
             r == rows[n]
             k == Cardinality({i \in 1..Len(s) : ~StrLess(r.Endereco, s[i].Endereco)})
         IN  SubSeq(s, 1, k) \o <<r>> \o SubSeq(s, k + 1, Len(s))

\* The group keys of groupby('Item'): sorted, null keys dropped.
group_items(rows) == SortSet({rows[i].Item : i \in 1..Len(rows)} \ {NaN})

\* The 'Endereco' values of the rows of one item, in row order (list(x)).
enderecos_of(rows, item) ==
    LET g == SelectSeq(rows, LAMBDA r : r.Item = item)
    IN  [i \in 1..Len(g) |-> g[i].Endereco]

(***************************************************************************)
(* process_rastreabilidade_data                                            *)
(***************************************************************************)
\* An unpivot of the origin column alone.
melt_origem_only(rows) ==
    [i \in 1..Len(rows) |->
        [Item |-> rows[i].Item, variable |-> "EnderecoOrigem",
         Endereco |-> rows[i].EnderecoOrigem]]

\* pd.melt(df[['Item', origem, destino]], id_vars=['Item'], value_name='Endereco'):
\* the origin rows in input order, then the destination rows.
melt(rows) ==
    LET n == Len(rows)
    IN  [i \in 1..(2 * n) |->
            IF i <= n
            THEN [Item |-> rows[i].Item, variable |-> "EnderecoOrigem",
                  Endereco |-> rows[i].EnderecoOrigem]
            ELSE [Item |-> rows[i - n].Item, variable |-> "EnderecoDestino",
                  Endereco |-> rows[i - n].EnderecoDestino]]

\* The schema choice with the origin/destination pair looked for first.
rastreabilidade_melted_origem_destino_first(df) ==
    IF "Item" \notin df.columns
       /\ ("Endereco" \in df.columns
           \/ {"EnderecoOrigem", "EnderecoDestino"} \subseteq df.columns)
    THEN Raised("KeyError")
    ELSE IF "EnderecoOrigem" \in df.columns /\ "EnderecoDestino" \in df.columns
    THEN [columns |-> {"Item", "variable", "Endereco"}, rows |-> melt(df.rows)]
    ELSE IF "Endereco" \in df.columns
    THEN [columns |-> {"Item", "Endereco"},
          rows |-> [i \in 1..Len(df.rows) |->
                      [Item |-> df.rows[i].Item, Endereco |-> df.rows[i].Endereco]]]
    ELSE None

\* The schema choice: df_melted, None when no address column is usable, and
\* the KeyError of df[['Item', ...]] when 'Item' is absent.
rastreabilidade_melted(df) ==
    IF "Endereco" \in df.columns THEN
        IF "Item" \notin df.columns THEN Raised("KeyError")
        ELSE [columns |-> {"Item", "Endereco"},
              rows |-> [i \in 1..Len(df.rows) |->
                          [Item |-> df.rows[i].Item, Endereco |-> df.rows[i].Endereco]]]
    ELSE IF "EnderecoOrigem" \in df.columns /\ "EnderecoDestino" \in df.columns THEN
        IF "Item" \notin df.columns THEN Raised("KeyError")
        ELSE [columns |-> {"Item", "variable", "Endereco"}, rows |-> melt(df.rows)]
    ELSE None

\* dropna, the A0 filter and drop_duplicates of df_melted
rastreabilidade_filtered(rows) == drop_duplicates(filter_A0(dropna_endereco(rows)))

\* sort_values('Endereco').groupby('Item', as_index=False).agg(list)
rastreabilidade_grouped(rows) ==
    LET sorted == sort_values(rows)
        keys == group_items(sorted)
    IN  [k \in 1..Len(keys) |->
            [Item |-> keys[k],
             EnderecosA0Rastreabilidade |-> enderecos_of(sorted, keys[k])]]

process_rastreabilidade_data(df) ==
    LET melted == rastreabilidade_melted(df)
    IN  IF ~IsTable(melted) THEN melted
        ELSE [columns |-> {"Item", "EnderecosA0Rastreabilidade"},
              rows |-> rastreabilidade_grouped(rastreabilidade_filtered(melted.rows))]

(***************************************************************************)
(* process_estoque_data                                                    *)
(***************************************************************************)
\* df_estoque.rename(columns={'Qtd Atual': 'Qtd em Estoque'}), when 'Qtd Atual' exists
estoque_renamed(df) ==
    IF "QtdAtual" \notin df.columns THEN df
    ELSE [columns |-> (df.columns \ {"QtdAtual"}) \cup {"QtdEmEstoque"},
          rows |-> [i \in 1..Len(df.rows) |->
                      [c \in (df.columns \ {"QtdAtual"}) \cup {"QtdEmEstoque"} |->
                          IF c = "QtdEmEstoque" THEN df.rows[i].QtdAtual
                          ELSE df.rows[i][c]]]]

\* mask = Item.isin(itens_status) & Endereco.str.startswith('A0', na=False)
estoque_mask(r, itens) == r.Item \in itens /\ startswith(r.Endereco, A0)

\* pd.to_numeric(df['Qtd em Estoque'], errors='coerce').fillna(0) on the masked rows
estoque_filtered(rows, itens) ==
    LET kept == SelectSeq(rows, LAMBDA r : estoque_mask(r, itens))
    IN  [i \in 1..Len(kept) |->
            [Item |-> kept[i].Item, Endereco |-> kept[i].Endereco,
             QtdEmEstoque |-> fillna0(to_numeric(kept[i].QtdEmEstoque))]]

\* The last quantity of a group instead of the sum.
sum_last(qs) == IF qs = <<>> THEN 0 ELSE qs[Len(qs)][1]

\* Series.sum() of one group: the quantities added in row order
RECURSIVE sum(_)
sum(qs) ==
    IF qs = <<>> THEN 0
    ELSE sum(SubSeq(qs, 1, Len(qs) - 1)) + qs[Len(qs)][1]

\* The quantities of the rows of one (Item, Endereco) pair, in row order.
qtd_of(rows, item, endereco) ==
    LET g == SelectSeq(rows, LAMBDA r : r.Item = item /\ r.Endereco = endereco)
    IN  [i \in 1..Len(g) |-> g[i].QtdEmEstoque]

\* The group keys of groupby(['Item', 'Endereco']): sorted by Item, then by
\* Endereco; a pair with a null key is dropped.
RECURSIVE SortPairs(_)
SortPairs(P) ==
    IF P = {} THEN <<>>
    ELSE LET m == CHOOSE a \in P : \A b \in P :
                     \/ a = b
                     \/ StrLess(a[1], b[1])
                     \/ (a[1] = b[1] /\ StrLess(a[2], b[2]))
         IN  <<m>> \o SortPairs(P \ {m})

group_pairs(rows) ==
    SortPairs({<<rows[i].Item, rows[i].Endereco>> : i \in 1..Len(rows)}
              \ {p \in {<<rows[i].Item, rows[i].Endereco>> : i \in 1..Len(rows)} :
                    p[1] = NaN \/ p[2] = NaN})

\* groupby(['Item', 'Endereco'], as_index=False)['Qtd em Estoque'].sum()
estoque_grouped(rows) ==
    LET keys == group_pairs(rows)
    IN  [k \in 1..Len(keys) |->
            [Item |-> keys[k][1], Endereco |-> keys[k][2],
             QtdEmEstoque |-> <<sum(qtd_of(rows, keys[k][1], keys[k][2]))>>]]

\* df_estoque_grouped.groupby('Item')['Endereco'].apply(list).reset_index()
estoque_enderecos(grouped) ==
    LET keys == group_items(grouped)
    IN  [k \in 1..Len(keys) |->
            [Item |-> keys[k], EnderecosA0Estoque |-> enderecos_of(grouped, keys[k])]]

\* What process_estoque_data returns: the pair of tables, the single None of
\* a missing 'Endereco' column, or the KeyError of a missing 'Item' or
\* quantity column (a quantity column present twice after the rename makes
\* to_numeric raise TypeError).
process_estoque_data(df, itens) ==
    IF "Endereco" \notin df.columns THEN None
    ELSE IF "QtdAtual" \in df.columns /\ "QtdEmEstoque" \in df.columns
         THEN Raised("TypeError")
    ELSE LET renamed == estoque_renamed(df)
         IN  IF "Item" \notin renamed.columns
                \/ "QtdEmEstoque" \notin renamed.columns
             THEN Raised("KeyError")
             ELSE LET grouped == estoque_grouped(estoque_filtered(renamed.rows, itens))
                  IN  <<[columns |-> {"Item", "Endereco", "QtdEmEstoque"},
                         rows |-> grouped],
                        [columns |-> {"Item", "EnderecosA0Estoque"},
                         rows |-> estoque_enderecos(grouped)]>>

(***************************************************************************)
(* What the three stages show, and the exception each lets escape.         *)
(***************************************************************************)
\* st.error names missing_cols, st.info lists list(df_status.columns)
process_status_data_messages(df) ==
    LET missing_cols == SelectSeq(required_cols, LAMBDA c : c \notin df.columns)
    IN  IF missing_cols # <<>>
        THEN <<Msg("error", "process_status_data", missing_cols, <<>>),
               Msg("info", "process_status_data", <<>>, <<df.columns>>)>>
        ELSE <<>>

\* "Nenhuma coluna de endereco valida encontrada."
process_rastreabilidade_data_messages(df) ==
    IF rastreabilidade_melted(df) = None
    THEN <<Msg("error", "process_rastreabilidade_data", <<>>, <<>>)>>
    ELSE <<>>

\* "A coluna 'Endereco' nao foi encontrada."
process_estoque_data_messages(df) ==
    IF "Endereco" \notin df.columns
    THEN <<Msg("error", "process_estoque_data", <<"Endereco">>, <<>>)>>
    ELSE <<>>

\* The column the KeyError of a stage is about: the text of the exception,
\* which the except clause of process_data shows.
rastreabilidade_KeyError(df) == <<"Item">>
estoque_KeyError(df) ==
    IF "Item" \notin df.columns THEN <<"Item">> ELSE <<"QtdEmEstoque">>

(***************************************************************************)
(* st.cache_data: a cached function looks its arguments up and runs its    *)
(* body when they are not there; what the body returns is stored, an       *)
(* exception is not.  Every function has its own entries; those of         *)
(* read_file_cached are kept oldest first, for max_entries.                *)
(***************************************************************************)
\* @st.cache_data(ttl=3600, max_entries=3) of read_file_cached
max_entries == 3

\* process_estoque_data looked up by the stock table alone.
cache_key_first_argument(fn, args) == <<fn, <<args[1]>>>>

\* The key of a call: the function and all its arguments.
cache_key(fn, args) == <<fn, args>>

\* The body of a cached function on its arguments.
Body(fn, args) ==
    CASE fn = "read_file_cached" -> read_file_cached(args[1], args[2], args[3])
      [] fn = "process_status_data" -> process_status_data(args[1])
      [] fn = "process_rastreabilidade_data" -> process_rastreabilidade_data(args[1])
      [] fn = "process_estoque_data" -> process_estoque_data(args[1], args[2])

\* No function has an entry.
EmptyCache ==
    [read_file_cached |-> <<>>, process_status_data |-> {},
     process_rastreabilidade_data |-> {}, process_estoque_data |-> {}]

\* The entries of a function.
entries_of(c, fn) ==
    IF fn = "read_file_cached" THEN {c[fn][i] : i \in 1..Len(c[fn])} ELSE c[fn]

\* The entry stored, the oldest entry of the function dropped when it has
\* max_entries of them already (read_file_cached only).
cache_insert(c, fn, entry) ==
    IF fn = "read_file_cached"
    THEN [c EXCEPT ![fn] = (IF Len(@) >= max_entries THEN Tail(@) ELSE @) \o <<entry>>]
    ELSE [c EXCEPT ![fn] = @ \cup {entry}]

\* A call of a cached function: what it returns and the cache after it.
cache_miss(fn, key, value, c) ==
    [value |-> value,
     cache |-> IF IsRaised(value) THEN c
               ELSE cache_insert(c, fn, [key |-> key, value |-> value])]

cache_data(fn, args, c) ==
    LET key == cache_key(fn, args)
        hits == {e \in entries_of(c, fn) : e.key = key}
    IN  IF hits # {}
        THEN [value |-> (CHOOSE e \in hits : TRUE).value, cache |-> c]
        ELSE CHOOSE r \in {cache_miss(fn, key, value, c) : value \in {Body(fn, args)}} : TRUE

\* read_file: None for no file and for a name that ends in none of .csv,
\* .xlsx, .xls; None when read_file_cached returns None; otherwise the
\* table with its headers standardized.
read_file(uploaded_file, c) ==
    IF uploaded_file = None THEN [value |-> None, cache |-> c]
    ELSE IF file_type_of(uploaded_file.name) = "unsupported"
         THEN [value |-> None, cache |-> c]
    ELSE CHOOSE v \in
            {[value |-> IF r.value = None THEN None ELSE standardized(r.value),
              cache |-> r.cache] :
                r \in {cache_data("read_file_cached",
                                  <<uploaded_file.content, uploaded_file.name,
                                    file_type_of(uploaded_file.name)>>, c)}} : TRUE

(***************************************************************************)
(* utils.load_file.  A path is whether it exists, its name, its size in    *)
(* bytes and what pd.read_csv and pd.read_excel return or raise on it.     *)
(***************************************************************************)
\* config.SUPPORTED_FORMATS
SUPPORTED_FORMATS == {<<"c", "s", "v">>, <<"x", "l", "s", "x">>, <<"x", "l", "s">>}

\* config.MAX_FILE_SIZE
MAX_FILE_SIZE == 200 * 1024 * 1024

\* Path.suffix: the name from its last dot on, when that dot is neither the
\* first nor the last character
suffix(name) ==
    LET dots == {i \in 2..(Len(name) - 1) : name[i] = "."}
    IN  IF dots = {} THEN <<>>
        ELSE SubSeq(name, CHOOSE i \in dots : \A j \in dots : j <= i, Len(name))

\* str.lstrip('.')
RECURSIVE lstrip_dot(_)
lstrip_dot(s) == IF s # <<>> /\ Head(s) = "." THEN lstrip_dot(Tail(s)) ELSE s

\* str.lower() leaving every character as it is.
lower_str_unchanged(s) == s

\* str.lower()
lower_str(s) == [i \in 1..Len(s) |-> lower(s[i])]

\* file_path.suffix.lower().lstrip('.') in config.SUPPORTED_FORMATS
validate_file_format(file_path) ==
    lstrip_dot(lower_str(suffix(file_path.name))) \in SUPPORTED_FORMATS

\* A size check that passes every file.
validate_file_size_any(file_path) == TRUE

\* file_path.stat().st_size <= config.MAX_FILE_SIZE
validate_file_size(file_path) == file_path.st_size <= MAX_FILE_SIZE

\* DataFrame.empty: no rows or no columns
empty(df) == df.rows = <<>> \/ df.header = <<>>

\* load_file: None for a path that does not exist, a format not supported, a
\* file too large, a parse that raises (the except clause) and an empty
\* table; otherwise the table as parsed.  It logs and shows nothing.
load_file(file_path) ==
    IF ~file_path.exists THEN None
    ELSE IF ~validate_file_format(file_path) THEN None
    ELSE IF ~validate_file_size(file_path) THEN None
    ELSE LET df == IF lower_str(suffix(file_path.name)) = <<".", "c", "s", "v">>
                   THEN file_path.content.read_csv
                   ELSE file_path.content.read_excel
         IN  IF IsRaised(df) THEN None
             ELSE IF empty(df) THEN None
             ELSE df

(***************************************************************************)
(* process_data: the merge, the explode and the quantity label             *)
(***************************************************************************)
\* merge(..., on='Item', how='left') against a table with one row per item,
\* then `d if isinstance(d, list) else []` on the merged cell.
merged_list(rows, item, col) ==
    LET hits == SelectSeq(rows, LAMBDA r : r.Item = item)
    IN  IF hits = <<>> THEN <<>> ELSE hits[1][col]

\* The traceability list alone, and the two lists concatenated as they are.
address_union_rastreabilidade_only(rastreabilidade, estoque) ==
    SortSet(Range(rastreabilidade))
address_union_concat(rastreabilidade, estoque) == rastreabilidade \o estoque

\* sorted(set(row[rastreabilidade] + row[estoque]))
address_union(rastreabilidade, estoque) == SortSet(Range(rastreabilidade \o estoque))

\* The merges done with how='outer': the items of the traceability list
\* that have no status row are appended.
merge_enderecos_outer(status_rows, rastr_rows, estoque_rows) ==
    LET extra == SelectSeq(rastr_rows,
                    LAMBDA r : \A i \in 1..Len(status_rows) : status_rows[i].Item # r.Item)
    IN  [i \in 1..(Len(status_rows) + Len(extra)) |->
            LET item == IF i <= Len(status_rows) THEN status_rows[i].Item
                        ELSE extra[i - Len(status_rows)].Item
                rastr == merged_list(rastr_rows, item, "EnderecosA0Rastreabilidade")
                estq == merged_list(estoque_rows, item, "EnderecosA0Estoque")
            IN  [Item |-> item,
                 Descricao |-> IF i <= Len(status_rows) THEN status_rows[i].Descricao ELSE NaN,
                 QuantidadeNaoAlocada |->
                     IF i <= Len(status_rows) THEN status_rows[i].QuantidadeNaoAlocada
                     ELSE <<>>,
                 EnderecosA0Rastreabilidade |-> rastr,
                 EnderecosA0Estoque |-> estq,
                 EnderecoA0 |-> address_union(rastr, estq)]]

\* df_merged after the two left merges, the list defaults and 'Endereco A0'
merge_enderecos(status_rows, rastr_rows, estoque_rows) ==
    [i \in 1..Len(status_rows) |->
        LET item == status_rows[i].Item
            rastr == merged_list(rastr_rows, item, "EnderecosA0Rastreabilidade")
            estq == merged_list(estoque_rows, item, "EnderecosA0Estoque")
        IN  [Item |-> item,
             Descricao |-> status_rows[i].Descricao,
             QuantidadeNaoAlocada |-> status_rows[i].QuantidadeNaoAlocada,
             EnderecosA0Rastreabilidade |-> rastr,
             EnderecosA0Estoque |-> estq,
             EnderecoA0 |-> address_union(rastr, estq)]]

\* One row per status row, with the first address of its list.
RECURSIVE explode_first_address(_)
explode_first_address(rows) ==
    IF rows = <<>> THEN <<>>
    ELSE LET r == Head(rows)
         IN  <<[Item |-> r.Item, Descricao |-> r.Descricao,
                QuantidadeNaoAlocada |-> r.QuantidadeNaoAlocada,
                EnderecoA0 |-> IF r.EnderecoA0 = <<>> THEN NaN ELSE r.EnderecoA0[1]]>>
             \o explode_first_address(Tail(rows))

\* DataFrame.explode('Endereco A0'): one row per list element, and one row
\* with a null address for an empty list
RECURSIVE explode(_)
explode(rows) ==
    IF rows = <<>> THEN <<>>
    ELSE LET r == Head(rows)
             one(a) == [Item |-> r.Item, Descricao |-> r.Descricao,
                        QuantidadeNaoAlocada |-> r.QuantidadeNaoAlocada,
                        EnderecoA0 |-> a]
         IN  (IF r.EnderecoA0 = <<>> THEN <<one(NaN)>>
              ELSE [i \in 1..Len(r.EnderecoA0) |-> one(r.EnderecoA0[i])])
             \o explode(Tail(rows))

\* The explode without the dropna after it.
dropna_skipped(rows) == rows

\* .dropna(subset=['Endereco A0'])
dropna_enderecoA0(rows) == SelectSeq(rows, LAMBDA r : r.EnderecoA0 # NaN)

\* np.where(qtd > 0, qtd.astype(int).astype(str), 'VIDA')
status_da_quantidade(qtd) ==
    IF GreaterThanZero(qtd) THEN IntToStr(astype_int(qtd)) ELSE VIDA

\* df_final.merge(df_estoque_detalhado, left_on=['Item', 'Endereco A0'],
\* right_on=['Item', 'Endereco'], how='left'), fillna(0), the label and the
\* final column selection: one row per match, one row when nothing matches
RECURSIVE merge_estoque(_, _)
merge_estoque(rows, detalhado) ==
    IF rows = <<>> THEN <<>>
    ELSE LET r == Head(rows)
             hits == SelectSeq(detalhado,
                        LAMBDA d : d.Item = r.Item /\ d.Endereco = r.EnderecoA0)
             out(q) == [Item |-> r.Item, Descricao |-> r.Descricao,
                        QuantidadeNaoAlocada |-> r.QuantidadeNaoAlocada,
                        Endereco |-> r.EnderecoA0,
                        RastreabilidadeQntAtual |-> status_da_quantidade(fillna0(q))]
         IN  (IF hits = <<>> THEN <<out(<<>>)>>
              ELSE [i \in 1..Len(hits) |-> out(hits[i].QtdEmEstoque)])
             \o merge_estoque(Tail(rows), detalhado)

final_columns ==
    {"Item", "Descricao", "QuantidadeNaoAlocada", "Endereco", "RastreabilidadeQntAtual"}

build_report(merged_rows, detalhado_rows) ==
    [columns |-> final_columns,
     rows |-> merge_estoque(dropna_enderecoA0(explode(merged_rows)), detalhado_rows)]

(***************************************************************************)
(* The loaded tables the runs are checked on.  A loaded table has at least *)
(* one row: read_file_cached divides by the row count of every column and  *)
(* returns None for a table without rows.                                  *)
(***************************************************************************)
I1 == <<"I", "1">>
I2 == <<"I", "2">>
D1 == <<"D", "1">>
D2 == <<"D", "2">>
A01 == <<"A", "0", "1">>
A02 == <<"A", "0", "2">>
A03 == <<"A", "0", "3">>
a01 == <<"a", "0", "1">>
B01 == <<"B", "0", "1">>

StatusColumns == {"Item", "Descricao", "QuantidadeNaoAlocada"}
RastreabilidadeColumns == {"Item", "Endereco"}
OrigemDestinoColumns == {"Item", "EnderecoOrigem", "EnderecoDestino"}
EstoqueColumns == {"Item", "Endereco", "QtdAtual"}

Table(cols, rows) == [columns |-> cols, rows |-> rows]
StatusRow(i, d, q) == [Item |-> i, Descricao |-> d, QuantidadeNaoAlocada |-> q]
EstoqueRow(i, e, q) == [Item |-> i, Endereco |-> e, QtdAtual |-> q]

\* One status table, one traceability table and one stock table held fixed
\* while another table varies: I1 is open, I2 is not.
StatusFixed ==
    Table(StatusColumns, <<StatusRow(I1, D1, <<"3">>), StatusRow(I2, D2, <<"0">>)>>)
RastreabilidadeFixed ==
    Table(RastreabilidadeColumns,
          <<[Item |-> I1, Endereco |-> A02], [Item |-> I2, Endereco |-> A03]>>)
EstoqueFixed ==
    Table(EstoqueColumns, <<EstoqueRow(I1, A01, <<"2">>), EstoqueRow(I2, A01, <<"2">>)>>)

StatusCells == {NaN, <<"0">>, <<"-", "1">>, <<"3">>, <<"2", ".", "5">>, <<"x">>}
StatusTables ==
    {Table(StatusColumns, rows) :
        rows \in BoundedSeq([Item : {I1, I2}, Descricao : {D1},
                             QuantidadeNaoAlocada : StatusCells]
                            \cup [Item : {I1}, Descricao : {D2},
                                  QuantidadeNaoAlocada : {<<"3">>}], MaxStatusRows)}

EnderecoCells == {A01, A02, a01, B01, NaN}
RastreabilidadeTables ==
    {Table(RastreabilidadeColumns, rows) :
        rows \in BoundedSeq([Item : {I1, I2, NaN}, Endereco : EnderecoCells],
                            MaxRastreabilidadeRows)}
    \cup
    {Table(OrigemDestinoColumns, rows) :
        rows \in BoundedSeq([Item : {I1, I2}, EnderecoOrigem : {A01, a01, NaN},
                             EnderecoDestino : {A01, B01, NaN}],
                            MaxRastreabilidadeRows)}

QtdCells == {<<"2">>, <<"2", ".", "5">>, <<"-", "3">>, <<"x">>}
\* Stock rows of I1 at every address cell, and of I2 at A01.
EstoqueTables ==
    {Table(EstoqueColumns, rows) :
        rows \in BoundedSeq([Item : {I1}, Endereco : EnderecoCells, QtdAtual : QtdCells]
                            \cup [Item : {I2}, Endereco : {A01}, QtdAtual : QtdCells],
                            MaxEstoqueRows)}

\* Whole runs: the three tables vary together, each within its bound and
\* MaxReportInputRows rows in all.
ReportStatusRows ==
    [Item : {I1, I2}, Descricao : {D1}, QuantidadeNaoAlocada : {<<"0">>, <<"2">>}]
ReportRastreabilidadeRows == [Item : {I1, I2}, Endereco : {A01, A02}]
ReportEstoqueRows ==
    [Item : {I1, I2}, Endereco : {A01, A03}, QtdAtual : {<<"0">>, <<"2", ".", "5">>}]

\* The table as pd.read_excel parses it from a file whose headers are spelled
\* as the stages look for them, and the .xlsx upload that holds it.
Raw(t) ==
    LET cols == SelectSeq(ColumnNames, LAMBDA c : c \in t.columns)
    IN  [header |-> [i \in 1..Len(cols) |-> Header(cols[i])],
         rows |-> [j \in 1..Len(t.rows) |-> [i \in 1..Len(cols) |-> t.rows[j][cols[i]]]]]
N_xlsx == <<"f", ".", "x", "l", "s", "x">>
N_xls == <<"f", ".", "x", "l", "s">>
N_csv == <<"f", ".", "c", "s", "v">>
N_CSV == <<"f", ".", "C", "S", "V">>
N_txt == <<"f", ".", "t", "x", "t">>
FileNames == {N_xlsx, N_xls, N_csv, N_CSV, N_txt}
UploadedFile(name, content) == [name |-> name, content |-> content]
Xlsx(t) ==
    UploadedFile(N_xlsx, [read_csv |-> Raised("UnicodeDecodeError"), read_excel |-> Raw(t)])

\* Files of any name whose bytes parse as CSV only, as Excel only or not at
\* all, over tables of one row given as <<header, cell>> pairs, and over a
\* table of no rows.
OneRow(schema) ==
    [header |-> [i \in 1..Len(schema) |-> schema[i][1]],
     rows |-> <<[i \in 1..Len(schema) |-> schema[i][2]]>>]
NoRows(schema) ==
    [header |-> [i \in 1..Len(schema) |-> schema[i][1]], rows |-> <<>>]
Contents(schemas) ==
    {[read_csv |-> OneRow(sc), read_excel |-> Raised("BadZipFile")] : sc \in schemas}
    \cup {[read_csv |-> Raised("UnicodeDecodeError"), read_excel |-> OneRow(sc)] :
            sc \in schemas}
    \cup {[read_csv |-> NoRows(sc), read_excel |-> NoRows(sc)] : sc \in schemas}
    \cup {[read_csv |-> Raised("ParserError"), read_excel |-> Raised("BadZipFile")]}
Files(schemas) == {UploadedFile(n, c) : n \in FileNames, c \in Contents(schemas)}

\* Headers as a user may type them.
R_item_blanks == <<" ", "i", "t", "e", "m", " ">>
R_ITEM == <<"I", "T", "E", "M">>
R_DESCRICAO == <<"D", "E", "S", "C", "R", "I", "C~", "A~", "O">>
R_quantidade_nao_alocada ==
    <<"q", "u", "a", "n", "t", "i", "d", "a", "d", "e", " ", "n", "a", "o", " ",
      "a", "l", "o", "c", "a", "d", "a">>
R_endereco == <<"e", "n", "d", "e", "r", "e", "c", "o">>
R_QTD_ATUAL == <<"Q", "T", "D", " ", "A", "T", "U", "A", "L">>

Q3 == <<"3">>
Q2 == <<"2">>
StatusSchemas ==
    { << <<H_Item, I1>>, <<H_Descricao, D1>>, <<H_QuantidadeNaoAlocada, Q3>> >>,
      << <<H_Item, I1>>, <<H_Description, D1>>, <<H_QuantidadeNaoAlocada_ascii, Q3>> >>,
      << <<H_Item, I1>>, <<H_QuantidadeNaoAlocada, Q3>> >>,
      << <<H_Descricao, D1>> >>,
      << <<R_item_blanks, I1>>, <<R_DESCRICAO, D1>>, <<R_quantidade_nao_alocada, Q3>> >> }
RastreabilidadeSchemas ==
    { << <<H_Item, I1>>, <<H_Endereco, A01>> >>,
      << <<H_Item, I1>>, <<H_Endereco, A01>>, <<H_EnderecoOrigem, A02>>,
         <<H_EnderecoDestino, A03>> >>,
      << <<H_Item, I1>>, <<H_EnderecoOrigem, A02>>, <<H_EnderecoDestino, A03>> >>,
      << <<H_Item, I1>>, <<H_EnderecoOrigem_ascii, A02>>,
         <<H_EnderecoDestino_ascii, A03>> >>,
      << <<H_Item, I1>>, <<H_EnderecoOrigem, A02>> >>,
      << <<H_Item, I1>>, <<H_EnderecoDestino, A03>> >>,
      << <<H_Item, I1>> >>,
      << <<H_Endereco, A01>> >>,
      << <<H_EnderecoOrigem, A02>>, <<H_EnderecoDestino, A03>> >> }
EstoqueSchemas ==
    { << <<H_Item, I1>>, <<H_Endereco, A01>>, <<H_QtdAtual, Q2>> >>,
      << <<H_Item, I1>>, <<H_Endereco, A01>>, <<H_QtdEmEstoque, Q2>> >>,
      << <<H_Item, I1>>, <<H_Endereco, A01>>, <<H_QtdAtual, Q2>>, <<H_QtdEmEstoque, Q3>> >>,
      << <<H_Item, I1>>, <<H_Endereco, A01>> >>,
      << <<H_Item, I1>>, <<H_QtdAtual, Q2>> >>,
      << <<H_Endereco, A01>>, <<H_QtdAtual, Q2>> >>,
      << <<R_ITEM, I1>>, <<R_endereco, A01>>, <<R_QTD_ATUAL, Q2>> >>,
      << <<R_ITEM, I1>>, <<R_endereco, A01>>, <<H_QtdEmEstoque, Q2>> >> }

\* The state of a script run in which process_data is about to load the
\* status file: the button 'Gerar Relatorio' was pressed with the three files
\* uploaded, in a session that stored nothing yet, on an empty cache.
\* Nothing outside the Streamlit script has run: no library call, no CLI process.
NotCalled ==
    /\ now = 0
    /\ lru = <<>>
    /\ calls = <<>>
    /\ argv = None
    /\ cli_pc = "idle"
    /\ checked = <<>>
    /\ exit_status = None
    /\ processor = None

NotRunYet ==
    /\ pc = "load_status"
    /\ df_status = NotRun
    /\ df_rastreabilidade = NotRun
    /\ df_estoque = NotRun
    /\ df_status_processed = NotRun
    /\ df_melted = NotRun
    /\ enderecos_rastreabilidade = NotRun
    /\ itens_status = {}
    /\ df_estoque_detalhado = NotRun
    /\ enderecos_estoque = NotRun
    /\ df_merged = NotRun
    /\ df_final = NotRun
    /\ messages = <<>>
    /\ raised = <<>>
    /\ cache = EmptyCache
    /\ session_state = [clear_count |-> 0]
    /\ download_offered = FALSE
    /\ last_interaction = "upload"
    /\ NotCalled

InitStatus ==
    /\ status_file \in {Xlsx(t) : t \in StatusTables}
    /\ rastreabilidade_file = Xlsx(RastreabilidadeFixed)
    /\ estoque_file = Xlsx(EstoqueFixed)
    /\ NotRunYet

InitRastreabilidade ==
    /\ status_file = Xlsx(StatusFixed)
    /\ rastreabilidade_file \in {Xlsx(t) : t \in RastreabilidadeTables}
    /\ estoque_file = Xlsx(EstoqueFixed)
    /\ NotRunYet

InitEstoque ==
    /\ status_file = Xlsx(StatusFixed)
    /\ rastreabilidade_file = Xlsx(RastreabilidadeFixed)
    /\ estoque_file \in {Xlsx(t) : t \in EstoqueTables}
    /\ NotRunYet

InitReport ==
    /\ \E a \in 1..MaxStatusRows :
        \E b \in 1..MaxRastreabilidadeRows :
            \E c \in 1..MaxEstoqueRows :
                /\ a + b + c <= MaxReportInputRows
                /\ status_file \in {Xlsx(Table(StatusColumns, rows)) :
                                    rows \in [1..a -> ReportStatusRows]}
                /\ rastreabilidade_file \in {Xlsx(Table(RastreabilidadeColumns, rows)) :
                                    rows \in [1..b -> ReportRastreabilidadeRows]}
                /\ estoque_file \in {Xlsx(Table(EstoqueColumns, rows)) :
                                    rows \in [1..c -> ReportEstoqueRows]}
    /\ NotRunYet

\* One file of any name, content and headers, with two files that load.
InitFiles ==
    /\ \/ /\ status_file \in Files(StatusSchemas)
          /\ rastreabilidade_file = Xlsx(RastreabilidadeFixed)
          /\ estoque_file = Xlsx(EstoqueFixed)
       \/ /\ status_file = Xlsx(StatusFixed)
          /\ rastreabilidade_file \in Files(RastreabilidadeSchemas)
          /\ estoque_file = Xlsx(EstoqueFixed)
       \/ /\ status_file = Xlsx(StatusFixed)
          /\ rastreabilidade_file = Xlsx(RastreabilidadeFixed)
          /\ estoque_file \in Files(EstoqueSchemas)
    /\ NotRunYet

\* Paths for utils.load_file: there or not, of any name, of a size at, under
\* and over the limit, whose content parses as CSV, as Excel, to a table of
\* no rows or not at all.
N_none == <<"f">>
Sizes == {0, MAX_FILE_SIZE, MAX_FILE_SIZE + 1}
Paths ==
    {[exists |-> e, name |-> n, st_size |-> z, content |-> c] :
        e \in BOOLEAN, n \in FileNames \cup {N_none}, z \in Sizes,
        c \in Contents({<<<<H_Item, I1>>>>})}

InitLoadFile ==
    /\ status_file \in Paths
    /\ rastreabilidade_file = None
    /\ estoque_file = None
    /\ pc = "load_file"
    /\ df_status = NotRun
    /\ df_rastreabilidade = NotRun
    /\ df_estoque = NotRun
    /\ df_status_processed = NotRun
    /\ df_melted = NotRun
    /\ enderecos_rastreabilidade = NotRun
    /\ itens_status = {}
    /\ df_estoque_detalhado = NotRun
    /\ enderecos_estoque = NotRun
    /\ df_merged = NotRun
    /\ df_final = NotRun
    /\ messages = <<>>
    /\ raised = <<>>
    /\ cache = EmptyCache
    /\ session_state = [clear_count |-> 0]
    /\ download_offered = FALSE
    /\ last_interaction = "start"
    /\ NotCalled

Init == InitStatus \/ InitRastreabilidade \/ InitEstoque \/ InitReport \/ InitFiles

(***************************************************************************)
(* process_data, stage by stage.  A load or a stage that returns None, and *)
(* an exception (caught by the except clause of process_data, which shows  *)
(* its text), end the run with None.                                       *)
(***************************************************************************)
\* The run ended with the status table loaded so far as its result.
ReturnPartial ==
    /\ df_final' = df_status
    /\ pc' = "done"

\* process_estoque_data renaming the column of the table it was passed
\* (rename with inplace=True).
argument_renamed_in_place(stage, df) ==
    IF stage = "process_estoque_data" /\ IsTable(df) /\ "Endereco" \in df.columns
    THEN estoque_renamed(df)
    ELSE df

\* The table a name of the caller refers to after a stage was passed it.  The
\* stages assign only to tables of their own: df[cols].copy(), df[mask].copy(),
\* melt, rename, merge and explode return new tables, and drop_duplicates
\* with inplace=True is applied to such a copy.
argument_after(stage, df) == df

ReturnNone ==
    /\ df_final' = None
    /\ pc' = "done"

\* except Exception as e: st.error(f"Ocorreu um erro durante o processamento: {e}")
Except(type, at, names) ==
    /\ raised' = raised \o <<Exc(type, at)>>
    /\ messages' = messages \o <<Msg("error", "process_data", names, <<>>)>>
    /\ ReturnNone

\* df_status = read_file(status_file)
LoadStatus ==
    /\ pc = "load_status"
    /\ \E r \in {read_file(status_file, cache)} :
           /\ df_status' = r.value
           /\ cache' = r.cache
           /\ IF r.value = None THEN ReturnNone
              ELSE pc' = "status" /\ UNCHANGED df_final
    /\ messages' = messages \o read_file_messages(status_file)
    /\ UNCHANGED <<uploads, df_rastreabilidade, df_estoque, df_status_processed,
                   df_melted, enderecos_rastreabilidade, itens_status,
                   df_estoque_detalhado, enderecos_estoque, df_merged, raised,
                   session_state, download_offered, last_interaction>>
    /\ UNCHANGED <<call_vars, cli_vars>>

\* df_status_processed = process_status_data(df_status)
ProcessStatus ==
    /\ pc = "status"
    /\ \E r \in {cache_data("process_status_data", <<df_status>>, cache)} :
           /\ df_status_processed' = r.value
           /\ cache' = r.cache
    /\ messages' = messages \o process_status_data_messages(df_status)
    /\ IF df_status_processed' = None
       THEN ReturnNone
       ELSE pc' = "load_rastreabilidade" /\ UNCHANGED df_final
    /\ df_status' = argument_after("process_status_data", df_status)
    /\ UNCHANGED <<uploads, df_rastreabilidade, df_estoque, df_melted,
                   enderecos_rastreabilidade, itens_status, df_estoque_detalhado,
                   enderecos_estoque, df_merged, raised, session_state,
                   download_offered, last_interaction>>
    /\ UNCHANGED <<call_vars, cli_vars>>

\* df_rastreabilidade = read_file(rastreabilidade_file)
LoadRastreabilidade ==
    /\ pc = "load_rastreabilidade"
    /\ \E r \in {read_file(rastreabilidade_file, cache)} :
           /\ df_rastreabilidade' = r.value
           /\ cache' = r.cache
           /\ IF r.value = None THEN ReturnNone
              ELSE pc' = "rastreabilidade" /\ UNCHANGED df_final
    /\ messages' = messages \o read_file_messages(rastreabilidade_file)
    /\ UNCHANGED <<uploads, df_status, df_estoque, df_status_processed,
                   df_melted, enderecos_rastreabilidade, itens_status,
                   df_estoque_detalhado, enderecos_estoque, df_merged, raised,
                   session_state, download_offered, last_interaction>>
    /\ UNCHANGED <<call_vars, cli_vars>>

\* enderecos_rastreabilidade = process_rastreabilidade_data(df_rastreabilidade)
\* (df_melted is the table the body of the call builds)
ProcessRastreabilidade ==
    /\ pc = "rastreabilidade"
    /\ df_melted' = rastreabilidade_melted(df_rastreabilidade)
    /\ \E r \in {cache_data("process_rastreabilidade_data", <<df_rastreabilidade>>, cache)} :
           /\ enderecos_rastreabilidade' = r.value
           /\ cache' = r.cache
    /\ IF IsTable(enderecos_rastreabilidade')
       THEN /\ pc' = "load_estoque"
            /\ UNCHANGED <<df_final, messages, raised>>
       ELSE IF IsRaised(enderecos_rastreabilidade')
       THEN Except(enderecos_rastreabilidade'.raised, "process_rastreabilidade_data",
                   rastreabilidade_KeyError(df_rastreabilidade))
       ELSE /\ messages' = messages
                              \o process_rastreabilidade_data_messages(df_rastreabilidade)
            /\ UNCHANGED raised
            /\ ReturnNone
    /\ df_rastreabilidade' = argument_after("process_rastreabilidade_data", df_rastreabilidade)
    /\ UNCHANGED <<uploads, df_status, df_estoque,
                   df_status_processed, itens_status, df_estoque_detalhado,
                   enderecos_estoque, df_merged, session_state, download_offered,
                   last_interaction>>
    /\ UNCHANGED <<call_vars, cli_vars>>

\* df_estoque = read_file(estoque_file)
LoadEstoque ==
    /\ pc = "load_estoque"
    /\ \E r \in {read_file(estoque_file, cache)} :
           /\ df_estoque' = r.value
           /\ cache' = r.cache
           /\ IF r.value = None THEN ReturnNone
              ELSE pc' = "estoque" /\ UNCHANGED df_final
    /\ messages' = messages \o read_file_messages(estoque_file)
    /\ UNCHANGED <<uploads, df_status, df_rastreabilidade, df_status_processed,
                   df_melted, enderecos_rastreabilidade, itens_status,
                   df_estoque_detalhado, enderecos_estoque, df_merged, raised,
                   session_state, download_offered, last_interaction>>
    /\ UNCHANGED <<call_vars, cli_vars>>

\* itens_status = df_status_processed['Item'].unique()
\* df_estoque_detalhado, enderecos_estoque = process_estoque_data(df_estoque, itens_status)
\* Unpacking the single None raises TypeError in process_data, after the
\* message of process_estoque_data.
ProcessEstoque ==
    /\ pc = "estoque"
    /\ itens_status' = {df_status_processed.rows[i].Item :
                            i \in 1..Len(df_status_processed.rows)}
    /\ \E r \in {cache_data("process_estoque_data", <<df_estoque, itens_status'>>, cache)} :
           /\ cache' = r.cache
           /\ IF r.value = None
              THEN /\ UNCHANGED <<df_estoque_detalhado, enderecos_estoque>>
                   /\ raised' = raised \o <<Exc("TypeError", "process_data")>>
                   /\ messages' = messages
                                     \o process_estoque_data_messages(df_estoque)
                                     \o <<Msg("error", "process_data", <<>>, <<>>)>>
                   /\ ReturnNone
              ELSE IF IsRaised(r.value)
              THEN /\ UNCHANGED <<df_estoque_detalhado, enderecos_estoque>>
                   /\ Except(r.value.raised, "process_estoque_data",
                             estoque_KeyError(df_estoque))
              ELSE /\ df_estoque_detalhado' = r.value[1]
                   /\ enderecos_estoque' = r.value[2]
                   /\ pc' = "merge"
                   /\ UNCHANGED <<df_final, messages, raised>>
    /\ df_estoque' = argument_after("process_estoque_data", df_estoque)
    /\ UNCHANGED <<uploads, df_status, df_rastreabilidade,
                   df_status_processed, df_melted, enderecos_rastreabilidade,
                   df_merged, session_state, download_offered, last_interaction>>
    /\ UNCHANGED <<call_vars, cli_vars>>

\* The merges, the address union, the explode and the label.  On a df_merged
\* without rows, DataFrame.apply(..., axis=1) returns a DataFrame, and
\* assigning it to the column 'Endereco A0' raises or does not with the
\* pandas in use: the run ends with None or with the empty report.
Merge ==
    /\ pc = "merge"
    /\ df_merged' = Table(StatusColumns \cup {"EnderecosA0Rastreabilidade",
                                              "EnderecosA0Estoque", "EnderecoA0"},
                          merge_enderecos(df_status_processed.rows,
                                          enderecos_rastreabilidade.rows,
                                          enderecos_estoque.rows))
    /\ \E raises \in (IF df_status_processed.rows = <<>> THEN {TRUE, FALSE} ELSE {FALSE}) :
          IF raises THEN Except("ValueError", "process_data", <<>>)
          ELSE /\ df_final' = build_report(df_merged'.rows, df_estoque_detalhado.rows)
               /\ pc' = "done"
               /\ UNCHANGED <<messages, raised>>
    /\ df_status_processed' = argument_after("merge", df_status_processed)
    /\ enderecos_rastreabilidade' = argument_after("merge", enderecos_rastreabilidade)
    /\ enderecos_estoque' = argument_after("merge", enderecos_estoque)
    /\ df_estoque_detalhado' = argument_after("merge", df_estoque_detalhado)
    /\ UNCHANGED <<uploads, df_status, df_rastreabilidade, df_estoque, df_melted,
                   itens_status, cache, session_state, download_offered,
                   last_interaction>>
    /\ UNCHANGED <<call_vars, cli_vars>>

(***************************************************************************)
(* The script around process_data.                                         *)
(***************************************************************************)
\* if 'final_report' in st.session_state and not st.session_state['final_report'].empty
download_section(state) ==
    /\ "final_report" \in DOMAIN state
    /\ state.final_report.rows # <<>>

\* The branch of a failed run that shows nothing.
failure_message_none == <<>>

\* st.error("Nao foi possivel gerar o relatorio. ...")
failure_message == <<Msg("error", "main", <<>>, <<>>)>>

LocalsDiscarded ==
    /\ df_status' = NotRun
    /\ df_rastreabilidade' = NotRun
    /\ df_estoque' = NotRun
    /\ df_status_processed' = NotRun
    /\ df_melted' = NotRun
    /\ enderecos_rastreabilidade' = NotRun
    /\ itens_status' = {}
    /\ df_estoque_detalhado' = NotRun
    /\ enderecos_estoque' = NotRun
    /\ df_merged' = NotRun
    /\ df_final' = NotRun

\* The script deleting the stored report when process_data returned None.
RenderResult_drops_report ==
    /\ pc = "done"
    /\ IF df_final # None
       THEN /\ messages' = messages \o <<Msg("success", "main", <<>>, <<>>)>>
            /\ session_state' = [clear_count |-> session_state.clear_count,
                                 final_report |-> df_final]
            /\ last_interaction' = "generate_ok"
       ELSE /\ messages' = messages \o failure_message
            /\ session_state' = [clear_count |-> session_state.clear_count]
            /\ last_interaction' = "generate_failed"
    /\ download_offered' = download_section(session_state')
    /\ LocalsDiscarded
    /\ pc' = "idle"
    /\ UNCHANGED <<uploads, raised, cache>>
    /\ UNCHANGED <<call_vars, cli_vars>>

\* The script after process_data returned final_report: the success message
\* and st.session_state['final_report'] = final_report, or the error
\* message; then the download section; the run ends.
RenderResult ==
    /\ pc = "done"
    /\ IF df_final # None
       THEN /\ messages' = messages \o <<Msg("success", "main", <<>>, <<>>)>>
            /\ session_state' = [clear_count |-> session_state.clear_count,
                                 final_report |-> df_final]
            /\ last_interaction' = "generate_ok"
       ELSE /\ messages' = messages \o failure_message
            /\ UNCHANGED session_state
            /\ last_interaction' = "generate_failed"
    /\ download_offered' = download_section(session_state')
    /\ LocalsDiscarded
    /\ pc' = "idle"
    /\ UNCHANGED <<uploads, raised, cache>>
    /\ UNCHANGED <<call_vars, cli_vars>>

\* df = load_file(file_path), outside the application
LoadFile ==
    /\ pc = "load_file"
    /\ df_status' = load_file(status_file)
    /\ pc' = "loaded"
    /\ UNCHANGED <<uploads, df_rastreabilidade, df_estoque, df_status_processed,
                   df_melted, enderecos_rastreabilidade, itens_status,
                   df_estoque_detalhado, enderecos_estoque, df_merged, df_final,
                   messages, raised, cache, session_state, download_offered,
                   last_interaction>>
    /\ UNCHANGED <<call_vars, cli_vars>>

Next ==
    \/ LoadStatus
    \/ ProcessStatus
    \/ LoadRastreabilidade
    \/ ProcessRastreabilidade
    \/ LoadEstoque
    \/ ProcessEstoque
    \/ Merge
    \/ RenderResult

Spec == Init /\ [][Next]_vars

\* The loaders: runs of process_data over files of any name and content, and
\* calls of utils.load_file.
LoadersInit == InitFiles \/ InitLoadFile
LoadersNext == LoadFile \/ Next
LoadersSpec == LoadersInit /\ [][LoadersNext]_vars

(***************************************************************************)
(* A session: uploads, the two buttons and any other interaction, each a   *)
(* script run, on the cache of the server.  The page is built anew by      *)
(* every script run.                                                       *)
(***************************************************************************)
\* A status file in which an item is open and one in which nothing is open,
\* a traceability file and a stock file.
SessionStatusFiles ==
    { Xlsx(StatusFixed),
      Xlsx(Table(StatusColumns, <<StatusRow(I1, D1, <<"0">>)>>)) }
SessionRastreabilidadeFiles == {Xlsx(RastreabilidadeFixed)}
SessionEstoqueFiles == {Xlsx(EstoqueFixed)}

\* The page before any upload: no file, no run, nothing stored.
AppIdle ==
    /\ status_file = None
    /\ rastreabilidade_file = None
    /\ estoque_file = None
    /\ pc = "idle"
    /\ df_status = NotRun
    /\ df_rastreabilidade = NotRun
    /\ df_estoque = NotRun
    /\ df_status_processed = NotRun
    /\ df_melted = NotRun
    /\ enderecos_rastreabilidade = NotRun
    /\ itens_status = {}
    /\ df_estoque_detalhado = NotRun
    /\ enderecos_estoque = NotRun
    /\ df_merged = NotRun
    /\ df_final = NotRun
    /\ messages = <<>>
    /\ raised = <<>>
    /\ cache = EmptyCache
    /\ session_state = [clear_count |-> 0]
    /\ download_offered = FALSE
    /\ last_interaction = "start"

SessionInit ==
    /\ AppIdle
    /\ NotCalled

\* A script run that calls nothing: the page shows the download section or not.
ScriptRun(interaction, state) ==
    /\ messages' = <<>>
    /\ raised' = <<>>
    /\ download_offered' = download_section(state)
    /\ last_interaction' = interaction

\* st.file_uploader: a file is put in one of the three uploaders
Upload ==
    /\ pc = "idle"
    /\ \/ \E f \in SessionStatusFiles :
            status_file' = f /\ UNCHANGED <<rastreabilidade_file, estoque_file>>
       \/ \E f \in SessionRastreabilidadeFiles :
            rastreabilidade_file' = f /\ UNCHANGED <<status_file, estoque_file>>
       \/ \E f \in SessionEstoqueFiles :
            estoque_file' = f /\ UNCHANGED <<status_file, rastreabilidade_file>>
    /\ ScriptRun("upload", session_state)
    /\ UNCHANGED <<pc, locals, cache, session_state>>
    /\ UNCHANGED <<call_vars, cli_vars>>

\* st.file_uploader: the file of one uploader is removed.
RemoveFile ==
    /\ pc = "idle"
    /\ \/ status_file # None /\ status_file' = None
             /\ UNCHANGED <<rastreabilidade_file, estoque_file>>
       \/ rastreabilidade_file # None /\ rastreabilidade_file' = None
             /\ UNCHANGED <<status_file, estoque_file>>
       \/ estoque_file # None /\ estoque_file' = None
             /\ UNCHANGED <<status_file, rastreabilidade_file>>
    /\ ScriptRun("remove", session_state)
    /\ UNCHANGED <<pc, locals, cache, session_state>>
    /\ UNCHANGED <<call_vars, cli_vars>>

\* Any other interaction with the page, such as a download button.
Rerun ==
    /\ pc = "idle"
    /\ ScriptRun("rerun", session_state)
    /\ UNCHANGED <<uploads, pc, locals, cache, session_state>>
    /\ UNCHANGED <<call_vars, cli_vars>>

\* The button 'Gerar Relatorio': with the three files process_data starts,
\* without one of them the script shows a warning.
GerarRelatorio ==
    /\ pc = "idle"
    /\ IF status_file # None /\ rastreabilidade_file # None /\ estoque_file # None
       THEN /\ pc' = "load_status"
            /\ messages' = <<>>
            /\ raised' = <<>>
            /\ UNCHANGED <<download_offered, last_interaction>>
       ELSE /\ messages' = <<Msg("warning", "main", <<>>, <<>>)>>
            /\ raised' = <<>>
            /\ download_offered' = download_section(session_state)
            /\ last_interaction' = "generate_missing"
            /\ UNCHANGED pc
    /\ UNCHANGED <<uploads, locals, cache, session_state>>
    /\ UNCHANGED <<call_vars, cli_vars>>

\* The callback that leaves the stored report where it is.
clear_uploads_keeps_report ==
    /\ pc = "idle"
    /\ session_state.clear_count < MaxClears
    /\ session_state' = [session_state EXCEPT !.clear_count = @ + 1]
    /\ cache' = EmptyCache
    /\ status_file' = None
    /\ rastreabilidade_file' = None
    /\ estoque_file' = None
    /\ ScriptRun("clear", [session_state EXCEPT !.clear_count = @ + 1])
    /\ UNCHANGED <<pc, locals>>
    /\ UNCHANGED <<call_vars, cli_vars>>

\* The button 'Limpar': clear_count += 1 (the uploaders get new keys and are
\* empty), del st.session_state['final_report'], st.cache_data.clear(); then
\* the script runs.
clear_uploads ==
    /\ pc = "idle"
    /\ session_state.clear_count < MaxClears
    /\ session_state' = [clear_count |-> session_state.clear_count + 1]
    /\ cache' = EmptyCache
    /\ status_file' = None
    /\ rastreabilidade_file' = None
    /\ estoque_file' = None
    /\ ScriptRun("clear", [clear_count |-> session_state.clear_count + 1])
    /\ UNCHANGED <<pc, locals>>
    /\ UNCHANGED <<call_vars, cli_vars>>

\* ttl: an entry expires, of read_file_cached the oldest
Expire ==
    /\ pc = "idle"
    /\ \/ /\ cache.read_file_cached # <<>>
          /\ cache' = [cache EXCEPT !.read_file_cached = Tail(@)]
       \/ \E fn \in {"process_status_data", "process_rastreabilidade_data",
                      "process_estoque_data"} :
             \E e \in cache[fn] : cache' = [cache EXCEPT ![fn] = @ \ {e}]
    /\ UNCHANGED <<uploads, pc, locals, messages, raised, session_state,
                   download_offered, last_interaction>>
    /\ UNCHANGED <<call_vars, cli_vars>>

SessionNext ==
    \/ Upload
    \/ RemoveFile
    \/ Rerun
    \/ GerarRelatorio
    \/ clear_uploads
    \/ Expire
    \/ LoadStatus
    \/ ProcessStatus
    \/ LoadRastreabilidade
    \/ ProcessRastreabilidade
    \/ LoadEstoque
    \/ ProcessEstoque
    \/ Merge
    \/ RenderResult

SessionSpec == SessionInit /\ [][SessionNext]_vars

(***************************************************************************)
(* What the claims are stated against: the reading of the modelled cells,  *)
(* written down cell by cell, and the raw pairs of the loaded tables.      *)
(***************************************************************************)
\* The quantity cells that denote a number greater than 0.
PositiveCells == {<<"2">>, <<"3">>, <<"2", ".", "5">>}
\* The address cells that start with "A0".
A0Cells == {A01, A02, A03}
\* The value of a stock quantity cell, in halves; what is no number counts 0.
QtdHalves(cell) ==
    CASE cell = <<"2">> -> 4
      [] cell = <<"2", ".", "5">> -> 5
      [] cell = <<"-", "3">> -> -6
      [] cell \in {<<"0">>, <<"x">>, NaN} -> 0

Done == pc = "done"
\* process_data is right after the call of a stage, which returned a result.
StatusReturned == pc = "load_rastreabilidade"
RastreabilidadeReturned == pc = "load_estoque"
EstoqueReturned == pc = "merge"
Reported == Done /\ IsTable(df_final)
ReportRows == {df_final.rows[i] : i \in 1..Len(df_final.rows)}

\* The items of the status rows with a quantity greater than 0.
OpenItems ==
    {df_status.rows[i].Item :
        i \in {j \in 1..Len(df_status.rows) :
                  df_status.rows[j].QuantidadeNaoAlocada \in PositiveCells}}
StatusItems == {df_status.rows[i].Item : i \in 1..Len(df_status.rows)}

\* The (Item, address) pairs of the loaded traceability and stock tables.
RastreabilidadePairs ==
    IF "Endereco" \in df_rastreabilidade.columns
    THEN {<<df_rastreabilidade.rows[i].Item, df_rastreabilidade.rows[i].Endereco>> :
            i \in 1..Len(df_rastreabilidade.rows)}
    ELSE {<<df_rastreabilidade.rows[i].Item, df_rastreabilidade.rows[i].EnderecoOrigem>> :
            i \in 1..Len(df_rastreabilidade.rows)}
         \cup
         {<<df_rastreabilidade.rows[i].Item, df_rastreabilidade.rows[i].EnderecoDestino>> :
            i \in 1..Len(df_rastreabilidade.rows)}
EstoquePairs ==
    {<<df_estoque.rows[i].Item, df_estoque.rows[i].Endereco>> :
        i \in 1..Len(df_estoque.rows)}

\* The A0 addresses an item has in either table.
A0Of(item) ==
    {a \in A0Cells : <<item, a>> \in RastreabilidadePairs \/ <<item, a>> \in EstoquePairs}

RECURSIVE SumOver(_, _)
SumOver(I, f) ==
    IF I = {} THEN 0
    ELSE LET i == CHOOSE j \in I : TRUE IN f[i] + SumOver(I \ {i}, f)

\* The total, in halves, of the stock rows of one (Item, address) pair.
EstoqueTotal(item, endereco) ==
    SumOver({i \in 1..Len(df_estoque.rows) :
                df_estoque.rows[i].Item = item /\ df_estoque.rows[i].Endereco = endereco},
            [i \in 1..Len(df_estoque.rows) |-> QtdHalves(df_estoque.rows[i].QtdAtual)])

\* The decimal digits of a whole number below 100.
Decimal(n) ==
    IF n < 10 THEN <<Digits[n + 1]>> ELSE <<Digits[(n \div 10) + 1], Digits[(n % 10) + 1]>>

(***************************************************************************)
(* C1: process_status_data returns exactly the rows whose 'Quantidade Nao  *)
(* Alocada' converts to a number greater than 0, in their order; a row     *)
(* whose value is null, 0, negative or no number is excluded.              *)
(***************************************************************************)
C1_StatusFilter ==
    StatusReturned =>
        LET kept == Pick(df_status.rows,
                         {i \in 1..Len(df_status.rows) :
                             df_status.rows[i].QuantidadeNaoAlocada \in PositiveCells})
            out == df_status_processed.rows
        IN  /\ Len(out) = Len(kept)
            /\ \A i \in 1..Len(out) :
                  /\ out[i].Item = kept[i].Item
                  /\ out[i].Descricao = kept[i].Descricao
                  /\ out[i].QuantidadeNaoAlocada # <<>>
                  /\ out[i].QuantidadeNaoAlocada[1] > 0

C1_Witness ==
    /\ StatusReturned
    /\ Len(df_status.rows) = 2
    /\ df_status.rows[1].QuantidadeNaoAlocada \in {NaN, <<"0">>, <<"-", "1">>, <<"x">>}
    /\ df_status.rows[2].QuantidadeNaoAlocada = <<"2", ".", "5">>
    /\ Len(df_status_processed.rows) = 1
    /\ df_status_processed.rows[1].Item = df_status.rows[2].Item

(***************************************************************************)
(* C2: every row of the report has an Item of a status row with quantity   *)
(* > 0; an item whose status rows all have 0 or null has no report row,    *)
(* whatever the other two tables hold for it.                              *)
(***************************************************************************)
C2_ReportItemsOpen ==
    Reported => \A r \in ReportRows : r.Item \in OpenItems

C2_Witness ==
    /\ Reported
    /\ df_final.rows # <<>>
    /\ \E item \in StatusItems \ OpenItems :
          /\ \E a \in A0Cells : <<item, a>> \in RastreabilidadePairs
          /\ \E a \in A0Cells : <<item, a>> \in EstoquePairs

C6_NoDuplicatePairs ==
    Reported =>
        \A i, j \in 1..Len(df_final.rows) :
            (/\ df_final.rows[i].Item = df_final.rows[j].Item
             /\ df_final.rows[i].Endereco = df_final.rows[j].Endereco) => i = j

(***************************************************************************)
(* C7: in both paths an address is kept if and only if it is not null and  *)
(* starts with "A0", case-sensitively; every address of the report starts  *)
(* with "A0".                                                              *)
(***************************************************************************)
ListedPairs(rows, col) ==
    UNION {{<<rows[k].Item, rows[k][col][i]>> : i \in 1..Len(rows[k][col])} :
              k \in 1..Len(rows)}

Permuted(df, p) == [columns |-> df.columns, rows |-> [i \in 1..Len(df.rows) |-> df.rows[p[i]]]]

C9_UnionCommutativeIdempotent ==
    IsTable(df_merged) =>
        \A k \in 1..Len(df_merged.rows) :
            LET r == df_merged.rows[k]
                T == r.EnderecosA0Rastreabilidade
                S == r.EnderecosA0Estoque
            IN  /\ r.EnderecoA0 = address_union(S, T)
                /\ r.EnderecoA0 = address_union(T \o T, S \o S)
                /\ \A a \in Range(T) \cup Range(S) :
                      Cardinality({i \in 1..Len(r.EnderecoA0) : r.EnderecoA0[i] = a}) = 1
                /\ Range(r.EnderecoA0) = Range(T) \cup Range(S)

C9_Witness ==
    /\ IsTable(df_merged)
    /\ \E k \in 1..Len(df_merged.rows) :
          LET r == df_merged.rows[k]
          IN  /\ Range(r.EnderecosA0Rastreabilidade) \cap Range(r.EnderecosA0Estoque) # {}
              /\ r.EnderecosA0Rastreabilidade # r.EnderecosA0Estoque
              /\ Len(r.EnderecoA0) = 2

(***************************************************************************)
(* C10: with the Origin/Destination schema and n rows, the unpivot gives   *)
(* 2n (Item, Address) rows before any filtering: one (Item, origin) and    *)
(* one (Item, destination) row for each input row.                         *)
(***************************************************************************)
C10_UnpivotTwicePerRow ==
    (RastreabilidadeReturned /\ "Endereco" \notin df_rastreabilidade.columns) =>
        LET in == df_rastreabilidade.rows
            out == df_melted.rows
        IN  /\ Len(out) = 2 * Len(in)
            /\ \A item \in {I1, I2, NaN} : \A a \in EnderecoCells :
                  Cardinality({i \in 1..Len(out) : out[i].Item = item /\ out[i].Endereco = a})
                    = Cardinality({i \in 1..Len(in) :
                                      in[i].Item = item /\ in[i].EnderecoOrigem = a})
                      + Cardinality({i \in 1..Len(in) :
                                      in[i].Item = item /\ in[i].EnderecoDestino = a})

C10_Witness ==
    /\ RastreabilidadeReturned
    /\ "Endereco" \notin df_rastreabilidade.columns
    /\ Len(df_rastreabilidade.rows) = 2
    /\ Len(df_melted.rows) = 4
    /\ df_rastreabilidade.rows[1].EnderecoOrigem = NaN
    /\ df_rastreabilidade.rows[2].EnderecoDestino = B01

(***************************************************************************)
(* C11: process_data runs load status, filter status, load traceability,   *)
(* extract traceability addresses, load stock, aggregate stock, merge, in  *)
(* this order; when a stage fails it returns None, no later stage has run, *)
(* and a table is returned only when every stage gave a table.             *)
(***************************************************************************)
Stages == <<"load_status", "status", "load_rastreabilidade", "rastreabilidade",
            "load_estoque", "estoque", "merge">>
\* What each stage left, in the order of Stages.
StageResults == <<df_status, df_status_processed, df_rastreabilidade,
                  enderecos_rastreabilidade, df_estoque, df_estoque_detalhado,
                  df_merged>>
Ran(v) == v # NotRun
Failed(v) == Ran(v) /\ ~IsTable(v)

C11_StageOrderAndAbort ==
    pc # "idle" =>
        /\ \A k \in 1..7 :
              Ran(StageResults[k]) => \A j \in 1..(k - 1) : IsTable(StageResults[j])
        /\ pc # "done" =>
              /\ pc = Stages[Cardinality({k \in 1..7 : Ran(StageResults[k])}) + 1]
              /\ \A k \in 1..7 : ~Failed(StageResults[k])
              /\ ~Ran(df_final)
        /\ pc = "done" =>
              /\ Ran(df_final)
              /\ (\E k \in 1..7 : ~IsTable(StageResults[k])) => df_final = None
              /\ df_final # None => IsTable(df_final)

\* A run that loaded and filtered the status table and failed in the
\* traceability stage: it returned None and loaded no stock table.
C11_Witness ==
    /\ pc = "done"
    /\ IsTable(df_status_processed)
    /\ IsTable(df_rastreabilidade)
    /\ Failed(enderecos_rastreabilidade)
    /\ df_estoque = NotRun
    /\ df_final = None

(***************************************************************************)
(* C12: when a stage fails on an absent required column, what it shows     *)
(* names the missing column(s) and lists the columns of the table.         *)
(* process_status_data does both; process_rastreabilidade_data names no    *)
(* column and lists none, process_estoque_data names 'Endereco' and lists  *)
(* none.                                                                   *)
(***************************************************************************)
\* The messages the function `at` showed in this run.
MessagesOf(at) == {messages[i] : i \in {j \in 1..Len(messages) : messages[j].at = at}}
NamesAndLists(at, df) ==
    /\ \E m \in MessagesOf(at) : m.names # <<>>
    /\ \E m \in MessagesOf(at) : m.columns = <<df.columns>>

C12_ErrorNamesMissingAndListsPresent ==
    pc = "done" =>
        /\ df_status_processed = None => NamesAndLists("process_status_data", df_status)
        /\ enderecos_rastreabilidade = None =>
              NamesAndLists("process_rastreabilidade_data", df_rastreabilidade)
        /\ (IsTable(df_estoque) /\ "Endereco" \notin df_estoque.columns) =>
              NamesAndLists("process_estoque_data", df_estoque)

(***************************************************************************)
(* C13: a stage that finds a required column absent signals it by the      *)
(* value it returns and no exception is raised, in the stage or at its     *)
(* call; for the stock table this is so without 'Endereco', without a      *)
(* quantity column and without 'Item'.  In app.py the single None of       *)
(* process_estoque_data makes the tuple assignment of process_data raise   *)
(* TypeError, and an absent 'Item' or quantity column raises KeyError in   *)
(* process_estoque_data.                                                   *)
(***************************************************************************)
EstoqueLacksColumn ==
    /\ IsTable(df_estoque)
    /\ \/ "Endereco" \notin df_estoque.columns
       \/ "Item" \notin df_estoque.columns
       \/ {"QtdAtual", "QtdEmEstoque"} \cap df_estoque.columns = {}
RastreabilidadeLacksColumn ==
    /\ IsTable(df_rastreabilidade)
    /\ \/ "Item" \notin df_rastreabilidade.columns
       \/ /\ "Endereco" \notin df_rastreabilidade.columns
          /\ ~({"EnderecoOrigem", "EnderecoDestino"} \subseteq df_rastreabilidade.columns)
StatusLacksColumn ==
    /\ IsTable(df_status)
    /\ ~(Range(required_cols) \subseteq df_status.columns)

C13_MissingColumnNeverRaises ==
    (pc = "done" /\ (StatusLacksColumn \/ RastreabilidadeLacksColumn \/ EstoqueLacksColumn))
        => /\ raised = <<>>
           /\ df_final = None

(***************************************************************************)
(* C14: the schema of the traceability table is chosen in this order: with *)
(* an 'Endereco' column, df_melted is its (Item, Endereco) rows and the    *)
(* origin and destination columns are not read; else, with both 'Endereco  *)
(* Origem' and 'Endereco Destino', df_melted is the origin rows followed   *)
(* by the destination rows; else process_rastreabilidade_data returns      *)
(* None.  (The table has an 'Item' column in the first two cases.)         *)
(***************************************************************************)
\* process_rastreabilidade_data was called in this run.
RastreabilidadeCalled == IsTable(df_rastreabilidade) /\ Ran(enderecos_rastreabilidade)
MeltedPairs ==
    [i \in 1..Len(df_melted.rows) |-> <<df_melted.rows[i].Item, df_melted.rows[i].Endereco>>]
ColumnPairs(col) ==
    [i \in 1..Len(df_rastreabilidade.rows) |->
        <<df_rastreabilidade.rows[i].Item, df_rastreabilidade.rows[i][col]>>]

C14_SchemaPriority ==
    RastreabilidadeCalled =>
        LET cols == df_rastreabilidade.columns
        IN  IF "Endereco" \in cols THEN
                "Item" \in cols =>
                    /\ IsTable(df_melted)
                    /\ MeltedPairs = ColumnPairs("Endereco")
            ELSE IF {"EnderecoOrigem", "EnderecoDestino"} \subseteq cols THEN
                "Item" \in cols =>
                    /\ IsTable(df_melted)
                    /\ MeltedPairs = ColumnPairs("EnderecoOrigem")
                                        \o ColumnPairs("EnderecoDestino")
            ELSE /\ enderecos_rastreabilidade = None
                 /\ pc = "done"
                 /\ df_final = None

\* The three address columns at once, the only address read is 'Endereco';
\* a table with just one of origin and destination gave None.
C14_Witness ==
    /\ RastreabilidadeCalled
    /\ {"Item", "Endereco", "EnderecoOrigem", "EnderecoDestino"}
          \subseteq df_rastreabilidade.columns
    /\ df_rastreabilidade.rows[1].EnderecoOrigem # df_rastreabilidade.rows[1].Endereco
    /\ IsTable(df_melted)
    /\ MeltedPairs = <<<<I1, A01>>>>
    /\ IsTable(enderecos_rastreabilidade)

(***************************************************************************)
(* C15: standardize_column_name.  Each header of the modelled files is     *)
(* written here with its stripped, title-cased form.                       *)
(***************************************************************************)
StrippedTitled ==
    << <<H_Item, H_Item>>,
       <<H_Descricao, H_Descricao>>,
       <<H_QuantidadeNaoAlocada, H_QuantidadeNaoAlocada>>,
       <<H_Endereco, H_Endereco>>,
       <<H_EnderecoOrigem, H_EnderecoOrigem>>,
       <<H_EnderecoDestino, H_EnderecoDestino>>,
       <<H_QtdAtual, H_QtdAtual>>,
       <<H_QtdEmEstoque, H_QtdEmEstoqueTitled>>,
       <<H_Description, H_Description>>,
       <<H_QuantidadeNaoAlocada_ascii, H_QuantidadeNaoAlocada_ascii>>,
       <<H_EnderecoOrigem_ascii, H_EnderecoOrigem_ascii>>,
       <<H_EnderecoDestino_ascii, H_EnderecoDestino_ascii>>,
       <<R_item_blanks, H_Item>>,
       <<R_ITEM, H_Item>>,
       <<R_DESCRICAO, H_Descricao>>,
       <<R_quantidade_nao_alocada, H_QuantidadeNaoAlocada_ascii>>,
       <<R_endereco, H_Endereco_ascii>>,
       <<R_QTD_ATUAL, H_QtdAtual>> >>
StrippedTitledOf(h) ==
    StrippedTitled[CHOOSE i \in 1..Len(StrippedTitled) : StrippedTitled[i][1] = h][2]
IsKey(h) == \E i \in 1..Len(replacements) : replacements[i][1] = h
ValueOf(h) == replacements[CHOOSE i \in 1..Len(replacements) : replacements[i][1] = h][2]

\* The table pandas parsed from a file that loaded, and the (file, loaded
\* table) pairs of the run.
ParsedOf(file) ==
    IF IsRaised(file.content.read_csv) THEN file.content.read_excel
    ELSE file.content.read_csv
Loads == {l \in {<<status_file, df_status>>, <<rastreabilidade_file, df_rastreabilidade>>,
                 <<estoque_file, df_estoque>>} : IsTable(l[2])}
HeadersOf(df) == {Header(c) : c \in df.columns}

(***************************************************************************)
(* C15 as claimed: a header whose stripped, title-cased form is a key of   *)
(* the synonym table becomes the value of that key, and a header that the  *)
(* table does not map is returned unchanged.                               *)
(***************************************************************************)
C15_UnmappedUnchanged ==
    \A l \in Loads :
        HeadersOf(l[2]) =
            {IF IsKey(StrippedTitledOf(h)) THEN ValueOf(StrippedTitledOf(h)) ELSE h :
                h \in Range(ParsedOf(l[1]).header)}

(***************************************************************************)
(* C15 as app.py has it: a header whose stripped, title-cased form is a    *)
(* key of the synonym table becomes the value of that key, and a header    *)
(* that the table does not map becomes its stripped, title-cased form.     *)
(***************************************************************************)
C15_UnmappedStrippedTitled ==
    \A l \in Loads :
        HeadersOf(l[2]) =
            {IF IsKey(StrippedTitledOf(h)) THEN ValueOf(StrippedTitledOf(h))
             ELSE StrippedTitledOf(h) :
                h \in Range(ParsedOf(l[1]).header)}

\* A stock file with the headers 'ITEM', 'endereco' and 'Qtd em Estoque' was
\* loaded: its columns are 'Item', 'Endereco' with cedilla (through the key
\* 'Endereco') and 'Qtd Em Estoque'.
C15_Witness ==
    /\ IsTable(df_estoque)
    /\ ParsedOf(estoque_file).header = <<R_ITEM, R_endereco, H_QtdEmEstoque>>
    /\ df_estoque.columns = {"Item", "Endereco", "QtdEmEstoqueTitled"}

(***************************************************************************)
(* C16: in a session, what a cached stage returned is what its body        *)
(* returns on the arguments of the call.                                   *)
(***************************************************************************)
\* The table read_file returns for a file when nothing is cached.
FreshRead(uploaded_file) == read_file(uploaded_file, EmptyCache).value

Stored(state) == "final_report" \in DOMAIN state

\* The step is the clear action: nothing else changes clear_count.
Cleared == session_state'.clear_count # session_state.clear_count

\* The step ends a generate that produced a report.
GenerateSucceeded == pc = "done" /\ pc' = "idle" /\ IsTable(df_final)

\* C17: a stored report changes only by a clear action or by the end of a
\* generate that succeeded, which stores its report; a clear action leaves no
\* report stored, every cache empty and the download section not offered;
\* the download section is offered only with a stored, non-empty report, and
\* comes to be offered only by a generate that succeeded with a non-empty
\* report.
C17_ReportUntilClearOrGenerate ==
    [][ /\ (Stored(session_state) /\ session_state' # session_state)
             => \/ Cleared
                \/ GenerateSucceeded /\ session_state'.final_report = df_final
        /\ Cleared => /\ ~Stored(session_state')
                      /\ cache' = EmptyCache
                      /\ ~download_offered'
        /\ download_offered'
             => Stored(session_state') /\ session_state'.final_report.rows # <<>>
        /\ (~download_offered /\ download_offered')
             => GenerateSucceeded /\ df_final.rows # <<>>
      ]_vars

\* After a clear action a generate stored a report with rows, and a later
\* generate that failed left it stored and on offer.
C17_Witness ==
    /\ session_state.clear_count > 0
    /\ Stored(session_state)
    /\ download_offered
    /\ last_interaction = "generate_failed"
    /\ pc = "idle"

(***************************************************************************)
(* C18: the loaders return None or the whole table, and a load that        *)
(* returned None ends process_data with None.                              *)
(***************************************************************************)
\* The names read_file takes and the names load_file takes.
AppNames == {N_csv, N_xlsx, N_xls}
UtilsNames == {N_csv, N_CSV, N_xlsx, N_xls}

\* What the parser chosen for the name returns or raises.
ParserOutcome(file) ==
    IF file.name \in {N_csv, N_CSV} THEN file.content.read_csv
    ELSE file.content.read_excel

\* The three loads of a run, with the position of each in StageResults.
AppLoads == << <<status_file, df_status, 1>>,
               <<rastreabilidade_file, df_rastreabilidade, 3>>,
               <<estoque_file, df_estoque, 5>> >>

\* C18: a load of read_file that has run left None or the whole parsed table
\* (every row, under the standardized headers), and None whenever the name
\* ends in none of .csv, .xlsx, .xls or the parser raised; no exception of a
\* load reached process_data; after a load that left None the run is over
\* with None and no later stage ran.  load_file returned None or the whole
\* parsed table, and None whenever the path does not exist, the extension is
\* not supported, the size is over the limit, the parser raised or the table
\* is empty; it raised nothing.
C18_LoadersNoneOrWhole ==
    /\ pc \notin {"load_file", "loaded"} =>
         \A i \in 1..3 :
            LET file == AppLoads[i][1]
                df == AppLoads[i][2]
                k == AppLoads[i][3]
            IN  Ran(df) =>
                  /\ df = None \/ IsTable(df)
                  /\ (file.name \notin AppNames \/ IsRaised(ParserOutcome(file)))
                       => df = None
                  /\ IsTable(df) =>
                       /\ Len(df.rows) = Len(ParserOutcome(file).rows)
                       /\ df = standardized(ParserOutcome(file))
                  /\ df = None =>
                       /\ pc = "done"
                       /\ df_final = None
                       /\ raised = <<>>
                       /\ \A j \in (k + 1)..7 : ~Ran(StageResults[j])
    /\ pc = "loaded" =>
         LET parsed == ParserOutcome(status_file)
         IN  /\ df_status = None \/ df_status = parsed
             /\ df_status # None => ~IsRaised(parsed)
             /\ ( \/ ~status_file.exists
                  \/ status_file.name \notin UtilsNames
                  \/ status_file.st_size > MAX_FILE_SIZE
                  \/ IsRaised(parsed)
                  \/ (~IsRaised(parsed) /\ parsed.rows = <<>>) ) => df_status = None
             /\ raised = <<>>
             /\ df_final = NotRun

\* The third load returned None because the parser raised, after two
\* stages that succeeded: the run is over with None.
C18_Witness ==
    /\ pc = "done"
    /\ estoque_file.name \in AppNames
    /\ IsRaised(ParserOutcome(estoque_file))
    /\ df_estoque = None
    /\ IsTable(enderecos_rastreabilidade)
    /\ df_final = None

(***************************************************************************)
(* C19: a generate that produced no report has shown an error message.     *)
(***************************************************************************)
ErrorsShown == {i \in 1..Len(messages) : messages[i].kind = "error"}

\* C19: when process_data has returned None, the stage that failed has shown
\* an error message; and when the interaction of a generate that produced no
\* report has ended, the page shows that error and, last, the error message
\* of the main script.
C19_FailureShowsError ==
    /\ (pc = "done" /\ df_final = None)
         => \E i \in ErrorsShown : messages[i].at # "main"
    /\ (pc = "idle" /\ last_interaction = "generate_failed")
         => /\ \E i \in ErrorsShown : messages[i].at # "main"
            /\ Len(messages) \in ErrorsShown
            /\ messages[Len(messages)].at = "main"
            /\ ~Stored(session_state)

\* The interaction of a generate ended without a report after an exception in
\* a stage: the page shows the error of process_data and the error of the
\* main script.
C19_Witness ==
    /\ pc = "idle"
    /\ last_interaction = "generate_failed"
    /\ raised # <<>>
    /\ Len(messages) >= 2
    /\ messages[Len(messages)] = Msg("error", "main", <<>>, <<>>)

(***************************************************************************)
(* C20: the order of the rows of the two address sources does not show in  *)
(* the lists or in the report.                                             *)
(***************************************************************************)
Ascending(list) == \A i \in 1..(Len(list) - 1) : StrLess(list[i], list[i + 1])


\* The report of a run in which every stage succeeds, from the three tables.
ReportFrom(processed, enderecos, estoque) ==
    build_report(merge_enderecos(processed.rows, enderecos.rows, estoque[2].rows),
                 estoque[1].rows)
ReportOf(status, rastreabilidade, estoque) ==
    CHOOSE report \in
        {ReportFrom(processed, process_rastreabilidade_data(rastreabilidade),
                    process_estoque_data(estoque,
                        {processed.rows[i].Item : i \in 1..Len(processed.rows)})) :
            processed \in {process_status_data(status)}} : TRUE

\* The (Item, Endereco) pairs of the report rows, and the pairs of a report
\* that gives every row of the processed status table its addresses in
\* ascending order.
ReportPairs == [i \in 1..Len(df_final.rows) |->
                   <<df_final.rows[i].Item, df_final.rows[i].Endereco>>]
ReportAddresses(item) ==
    {df_final.rows[i].Endereco : i \in {j \in 1..Len(df_final.rows) :
                                           df_final.rows[j].Item = item}}
RECURSIVE AscendingPairs(_)
AscendingPairs(rows) ==
    IF rows = <<>> THEN <<>>
    ELSE LET list == SortSet(ReportAddresses(Head(rows).Item))
         IN  [i \in 1..Len(list) |-> <<Head(rows).Item, list[i]>>]
             \o AscendingPairs(Tail(rows))

MaxCalls == 2

\* The file names passed to validate_file_format.
FormatNames ==
    {<<"f", ".", "c", "s", "v">>, <<"f", ".", "x", "l", "s", "x">>,
     <<"f", ".", "x", "l", "s">>, <<"f", ".", "t", "x", "t">>,
     <<"f", ".", "p", "d", "f">>, <<"f", ".", "d", "o", "c">>,
     <<"f">>, <<"f", "c", "s", "v">>, <<"f", ".">>, <<".", "c", "s", "v">>,
     <<"f", ".", "C", "S", "V">>, <<"f", ".", "X", "l", "S", "x">>,
     <<"f", ".", "t", ".", "c", "s", "v">>, <<"f", ".", "c", "s", "v", ".", "t">>,
     <<"f", ".", "x", "l", "s", "m">>, <<"f", ".", "c", "s">>}

Called(fn, args, result) ==
    /\ Len(calls) < MaxCalls
    /\ calls' = Append(calls, [fn |-> fn, args |-> args, result |-> result])

\* utils.validate_file_format(name): Path(name) for a string
CallValidateFileFormat ==
    /\ \E name \in FormatNames :
          Called("validate_file_format", <<name>>, validate_file_format([name |-> name]))
    /\ UNCHANGED <<app_vars, now, lru, cli_vars>>

MaxNow == 1

\* The base names and extensions passed to generate_unique_filename; '.xlsx'
\* is the default extension.
BaseNames == {<<"t", "e", "s", "t">>, <<"r">>}
Extensions == {<<".", "x", "l", "s", "x">>, <<".", "c", "s", "v">>}

\* Two decimal digits, as %M and %S print them.
TwoDigits(n) == <<Digits[(n \div 10) + 1], Digits[(n % 10) + 1]>>

\* datetime.strftime('%Y%m%d_%H%M%S') of the instant t seconds after
\* 2024-01-01 00:00:00, for t below one hour.
strftime(t) ==
    <<"2", "0", "2", "4", "0", "1", "0", "1", "_", "0", "0">>
        \o TwoDigits(t \div 60) \o TwoDigits(t % 60)

\* f"{base_name}_{timestamp}{extension}" with timestamp = datetime.now().strftime(...)
generate_unique_filename(base_name, extension, t) ==
    base_name \o <<"_">> \o strftime(t) \o extension

CallGenerateUniqueFilename ==
    /\ \E base_name \in BaseNames, extension \in Extensions :
          Called("generate_unique_filename", <<base_name, extension>>,
                 generate_unique_filename(base_name, extension, now))
    /\ UNCHANGED <<app_vars, now, lru, cli_vars>>

\* A second passes between two calls.
Tick ==
    /\ now < MaxNow
    /\ now' = now + 1
    /\ UNCHANGED <<app_vars, lru, calls, cli_vars>>

(***************************************************************************)
(* utils.format_number.  A Python value is None, an int, a float or a str; *)
(* a float is nan, inf, -inf or a finite value counted in eighths (every   *)
(* such value is exact in float64).                                        *)
(***************************************************************************)
PyNone == [type |-> "NoneType"]
PyInt(n) == [type |-> "int", n |-> n]
PyStr(s) == [type |-> "str", s |-> s]
Finite(e) == [kind |-> "finite", eighths |-> e]
NotFinite(kind) == [kind |-> kind, eighths |-> 0]
PyFloat(f) == [type |-> "float", f |-> f]
ValueError == [kind |-> "ValueError", eighths |-> 0]

Returned(v) == [returned |-> v]

\* The values passed to format_number.
FormatValues ==
    {PyNone, PyFloat(NotFinite("nan")), PyFloat(NotFinite("inf")),
     PyFloat(NotFinite("-inf")), PyInt(10), PyInt(0), PyInt(-3),
     PyFloat(Finite(80)), PyFloat(Finite(84)), PyFloat(Finite(1)),
     PyFloat(Finite(3)), PyFloat(Finite(-20)), PyFloat(Finite(-5)),
     PyStr(<<>>), PyStr(<<"1", "0">>), PyStr(<<"1", "0", ".", "5">>),
     PyStr(<<" ", "7", " ">>), PyStr(<<"-", "2", ".", "2", "5">>),
     PyStr(<<"a", "b", "c">>), PyStr(<<"1", ".", "2", ".", "3">>),
     PyStr(<<"n", "a", "n">>), PyStr(<<"i", "n", "f">>),
     PyStr(<<"-", "I", "n", "f">>), PyStr(<<" ">>)}

\* 10 ** k
RECURSIVE Pow10(_)
Pow10(k) == IF k = 0 THEN 1 ELSE 10 * Pow10(k - 1)

\* float(s) of a decimal literal without sign and without exponent
UnsignedFloat(s) ==
    LET dots == {i \in 1..Len(s) : s[i] = "."}
    IN  IF dots = {} THEN
            IF AllDigits(s) THEN Finite(8 * DigitsToInt(s)) ELSE ValueError
        ELSE LET d == CHOOSE i \in dots : TRUE
                 int == SubSeq(s, 1, d - 1)
                 frac == SubSeq(s, d + 1, Len(s))
                 digits == int \o frac
             IN  IF Cardinality(dots) = 1 /\ AllDigits(digits)
                        /\ (int = <<>> \/ AllDigits(int))
                        /\ (frac = <<>> \/ AllDigits(frac))
                 THEN Finite((8 * DigitsToInt(digits)) \div Pow10(Len(frac)))
                 ELSE ValueError

Negated(f) ==
    IF f.kind = "finite" THEN Finite(-f.eighths)
    ELSE IF f.kind = "inf" THEN NotFinite("-inf")
    ELSE IF f.kind = "-inf" THEN NotFinite("inf")
    ELSE f

\* float(s) of a str: blanks stripped, an optional sign, then inf, infinity
\* or nan in any letter case, or a decimal literal
float_of_str(s) ==
    LET t == strip(s)
        signed == t # <<>> /\ Head(t) \in {"+", "-"}
        body == IF signed THEN Tail(t) ELSE t
        word == lower_str(body)
        f == IF word \in {<<"i", "n", "f">>, <<"i", "n", "f", "i", "n", "i", "t", "y">>}
             THEN NotFinite("inf")
             ELSE IF word = <<"n", "a", "n">> THEN NotFinite("nan")
             ELSE UnsignedFloat(body)
    IN  IF signed /\ Head(t) = "-" THEN Negated(f) ELSE f

\* float(value)
float(value) ==
    IF value.type = "int" THEN Finite(8 * value.n)
    ELSE IF value.type = "float" THEN value.f
    ELSE float_of_str(value.s)

\* str(n) of an int
str_int(n) == IF n < 0 THEN <<"-">> \o IntToStr(-n) ELSE IntToStr(n)

\* f"{num_value:.2f}" of a finite float: the exact value rounded to
\* hundredths, a tie to the even hundredth
format_2f(e) ==
    LET a == IF e < 0 THEN -e ELSE e
        q == (a * 25) \div 2
        h == IF (a * 25) % 2 = 0 THEN q ELSE IF q % 2 = 0 THEN q ELSE q + 1
    IN  (IF e < 0 THEN <<"-">> ELSE <<>>)
            \o IntToStr(h \div 100) \o <<".">> \o TwoDigits(h % 100)

\* except (ValueError, TypeError)
format_number_catches(type) == type \in {"ValueError", "TypeError"}

\* What leaves the try block of format_number for an exception of this type
\* raised on this value.
format_number_except(type, value) ==
    IF format_number_catches(type) THEN Returned(value.s)
    ELSE Raised(Exc(type, "format_number"))

\* format_number(value).  pd.isna is True for None and for the float nan;
\* int(nan) raises ValueError and int(inf) raises OverflowError.  str(value)
\* is only reached for a str.
format_number(value) ==
    IF value = PyNone \/ value = PyFloat(NotFinite("nan")) THEN Returned(<<>>)
    ELSE IF value = PyStr(<<>>) THEN Returned(<<>>)
    ELSE LET num_value == float(value)
         IN  IF num_value.kind = "ValueError" THEN format_number_except("ValueError", value)
             ELSE IF num_value.kind = "nan" THEN format_number_except("ValueError", value)
             ELSE IF num_value.kind \in {"inf", "-inf"}
                  THEN format_number_except("OverflowError", value)
             ELSE IF num_value.eighths % 8 = 0
                  THEN Returned(str_int(num_value.eighths \div 8))
             ELSE Returned(format_2f(num_value.eighths))

CallFormatNumber ==
    /\ \E value \in FormatValues : Called("format_number", <<value>>, format_number(value))
    /\ UNCHANGED <<app_vars, now, lru, cli_vars>>

LibraryNext ==
    \/ CallValidateFileFormat
    \/ CallGenerateUniqueFilename
    \/ CallFormatNumber
    \/ Tick

LibrarySpec == SessionInit /\ [][LibraryNext]_vars

(***************************************************************************)
(* The lru_cache of standardize_column_name.  The cache holds at most      *)
(* maxsize entries, the least recently used first.  functools keys a call  *)
(* with one positional argument by the argument itself when it is exactly  *)
(* a str or an int, and by the tuple of the arguments otherwise; two       *)
(* tuples are the same key when their members compare equal, as True and   *)
(* 1.0 do.                                                                 *)
(***************************************************************************)
maxsize == 32

PyBool(b) == [type |-> "bool", b |-> b]

\* str(value)
str_float(e) ==
    LET a == IF e < 0 THEN -e ELSE e
        thousandths == (a % 8) * 125
        frac == IF thousandths % 100 = 0 THEN <<Digits[(thousandths \div 100) + 1]>>
                ELSE IF thousandths % 10 = 0 THEN TwoDigits(thousandths \div 10)
                ELSE <<Digits[(thousandths \div 100) + 1]>> \o TwoDigits(thousandths % 100)
    IN  (IF e < 0 THEN <<"-">> ELSE <<>>) \o IntToStr(a \div 8) \o <<".">> \o frac
str(value) ==
    IF value.type = "str" THEN value.s
    ELSE IF value.type = "int" THEN str_int(value.n)
    ELSE IF value.type = "bool"
         THEN (IF value.b THEN <<"T", "r", "u", "e">> ELSE <<"F", "a", "l", "s", "e">>)
    ELSE str_float(value.f.eighths)

\* The body of standardize_column_name: col = str(col_name).strip().title()
standardize_column_name_body(col_name) == standardize_column_name(str(col_name))

\* functools._make_key for one positional argument, typed=False
make_key(col_name) ==
    IF col_name.type \in {"str", "int"} THEN [scalar |-> col_name]
    ELSE [tuple |-> IF col_name.type = "bool" THEN (IF col_name.b THEN 8 ELSE 0)
                    ELSE col_name.f.eighths]

lru_hits(c, key) == {i \in 1..Len(c) : c[i].key = key}

\* A miss stores the result as the most recently used entry; a full cache
\* drops its least recently used entry first.
lru_store(c, key, result) ==
    Append(IF Len(c) >= maxsize THEN Tail(c) ELSE c, [key |-> key, result |-> result])

\* A hit returns the stored result and makes the entry the most recently used.
lru_touch(c, i) ==
    SubSeq(c, 1, i - 1) \o SubSeq(c, i + 1, Len(c)) \o <<c[i]>>

\* standardize_column_name(col_name) through its lru_cache: the result and
\* the cache after the call
standardize_column_name_cached(col_name, c) ==
    LET key == make_key(col_name)
        hits == lru_hits(c, key)
    IN  IF hits # {}
        THEN LET i == CHOOSE i \in hits : TRUE
             IN  [result |-> c[i].result, lru |-> lru_touch(c, i)]
        ELSE LET result == standardize_column_name_body(col_name)
             IN  [result |-> result, lru |-> lru_store(c, key, result)]

\* The k-th of the distinct headers that fill the cache.
GeneratedHeaders ==
    [k \in 1..(maxsize + 1) |-> PyStr(<<" ", "i", "t", "e", "m", " ">> \o TwoDigits(k))]
GeneratedHeader(k) == GeneratedHeaders[k]

\* How many of the generated headers have been passed so far.
Generated ==
    Cardinality({calls[i].args[1] : i \in 1..Len(calls)} \cap Range(GeneratedHeaders))

\* Column names that are no str, as read_excel gives them for header cells
\* that hold a boolean or a number.
OtherNames == {PyBool(TRUE), PyFloat(Finite(8)), PyInt(1), PyFloat(Finite(12))}

CallStandardizeColumnName(col_name) ==
    /\ \E r \in {standardize_column_name_cached(col_name, lru)} :
          /\ calls' = Append(calls, [fn |-> "standardize_column_name",
                                     args |-> <<col_name>>, result |-> r.result])
          /\ lru' = r.lru
    /\ UNCHANGED <<app_vars, now, cli_vars>>

\* The next header not passed before.
CallNewHeader ==
    /\ Generated <= maxsize
    /\ CallStandardizeColumnName(GeneratedHeader(Generated + 1))

\* The first or the last of the headers passed before, once more.
CallHeaderAgain ==
    /\ Generated >= 1
    /\ Len(calls) - Generated < MaxCalls
    /\ \E k \in {1, Generated} : CallStandardizeColumnName(GeneratedHeader(k))

\* A column name that is no str, before any header.
CallOtherName ==
    /\ Generated = 0
    /\ Len(calls) < MaxCalls
    /\ \E col_name \in OtherNames : CallStandardizeColumnName(col_name)

LruNext ==
    \/ CallNewHeader
    \/ CallHeaderAgain
    \/ CallOtherName

LruSpec == SessionInit /\ [][LruNext]_vars

(***************************************************************************)
(* C21                                                                     *)
(***************************************************************************)
\* The extension of a file name: what follows its last dot, when something
\* other than a dot-free remainder precedes that dot; none otherwise.
HasExtension(name, ext) ==
    \E k \in 2..Len(name) :
        /\ name[k] = "."
        /\ ext = SubSeq(name, k + 1, Len(name))
        /\ \A i \in 1..Len(ext) : ext[i] # "."
SameIgnoringCase(s, t) ==
    /\ Len(s) = Len(t)
    /\ \A i \in 1..Len(s) : upper(s[i]) = upper(t[i])
Supported(name) ==
    \E ext \in {SubSeq(name, k, Len(name)) : k \in 1..Len(name)} :
        /\ HasExtension(name, ext)
        /\ \E format \in {<<"c", "s", "v">>, <<"x", "l", "s", "x">>, <<"x", "l", "s">>} :
              SameIgnoringCase(ext, format)

\* C21: validate_file_format returns True exactly for the file names whose
\* extension is csv, xlsx or xls in any letter case, and False for every
\* other name (another extension, or none).
C21_SupportedExtension ==
    \A i \in 1..Len(calls) :
        calls[i].fn = "validate_file_format" =>
            calls[i].result = Supported(calls[i].args[1])

C21_Witness ==
    /\ \E i \in 1..Len(calls) :
          /\ calls[i].fn = "validate_file_format"
          /\ calls[i].args[1] = <<"f", ".", "X", "l", "S", "x">>
          /\ calls[i].result = TRUE
    /\ \E i \in 1..Len(calls) :
          /\ calls[i].fn = "validate_file_format"
          /\ calls[i].args[1] = <<"f", ".", "p", "d", "f">>
          /\ calls[i].result = FALSE

(***************************************************************************)
(* C22                                                                     *)
(***************************************************************************)
IsUniqueFilenameCall(i) == calls[i].fn = "generate_unique_filename"

\* C22: two successive calls of generate_unique_filename with the same base
\* name return different names, each starting with base_name + '_' and
\* ending with the extension.  The timestamp has a resolution of one second:
\* two calls within the same second return the same name.
C22_SuccessiveNamesDiffer ==
    /\ \A i \in 1..Len(calls) :
          IsUniqueFilenameCall(i) =>
              /\ startswith(calls[i].result, calls[i].args[1] \o <<"_">>)
              /\ endswith(calls[i].result, calls[i].args[2])
    /\ \A i \in 1..(Len(calls) - 1) :
          (/\ IsUniqueFilenameCall(i)
           /\ IsUniqueFilenameCall(i + 1)
           /\ calls[i].args[1] = calls[i + 1].args[1])
              => calls[i].result # calls[i + 1].result

(***************************************************************************)
(* C23                                                                     *)
(***************************************************************************)
\* What the claim says format_number returns, value by value.
FormatExpected ==
    {<<PyNone, <<>>>>, <<PyFloat(NotFinite("nan")), <<>>>>, <<PyStr(<<>>), <<>>>>,
     <<PyInt(10), <<"1", "0">>>>, <<PyFloat(Finite(80)), <<"1", "0">>>>,
     <<PyInt(0), <<"0">>>>, <<PyInt(-3), <<"-", "3">>>>,
     <<PyFloat(Finite(-20)), <<"-", "2", ".", "5", "0">>>>,
     <<PyFloat(Finite(84)), <<"1", "0", ".", "5", "0">>>>,
     <<PyStr(<<"1", "0">>), <<"1", "0">>>>,
     <<PyStr(<<"1", "0", ".", "5">>), <<"1", "0", ".", "5", "0">>>>,
     <<PyStr(<<" ", "7", " ">>), <<"7">>>>,
     <<PyStr(<<"-", "2", ".", "2", "5">>), <<"-", "2", ".", "2", "5">>>>,
     <<PyStr(<<"a", "b", "c">>), <<"a", "b", "c">>>>,
     <<PyStr(<<"1", ".", "2", ".", "3">>), <<"1", ".", "2", ".", "3">>>>,
     <<PyStr(<<" ">>), <<" ">>>>}

\* C23: format_number returns '' for None, nan and '', the integer digits
\* for an integral number, two decimals for a non-integral one and
\* str(value) for what is no number, and it never raises.  An infinite
\* value makes int(num_value) raise OverflowError, which the except clause
\* does not name.
C23_FormatNumberNeverRaises ==
    \A i \in 1..Len(calls) :
        calls[i].fn = "format_number" =>
            /\ DOMAIN calls[i].result = {"returned"}
            /\ \A p \in FormatExpected :
                  p[1] = calls[i].args[1] => calls[i].result.returned = p[2]

\* The part of C23 about the values returned, without the infinite values.
C23_ValuesReturned ==
    \A i \in 1..Len(calls) :
        calls[i].fn = "format_number" =>
            \A p \in FormatExpected :
                p[1] = calls[i].args[1] => calls[i].result = Returned(p[2])

(***************************************************************************)
(* C24                                                                     *)
(***************************************************************************)
\* C24: through the lru_cache of 32 entries, standardize_column_name
\* returns for every input what its body computes from that input, after
\* any earlier calls and evictions.  The cache keys True and 1.0 alike, and
\* their str differ.
C24_CachedEqualsBody ==
    \A i \in 1..Len(calls) :
        calls[i].fn = "standardize_column_name" =>
            calls[i].result = standardize_column_name_body(calls[i].args[1])

\* The same for the column names that are str, evictions included.
C24_CachedEqualsBodyStr ==
    \A i \in 1..Len(calls) :
        (calls[i].fn = "standardize_column_name" /\ calls[i].args[1].type = "str") =>
            calls[i].result = standardize_column_name_body(calls[i].args[1])

\* A header evicted from the full cache is passed again, and a header is hit
\* after an eviction.
C24_EvictionReached ==
    /\ Generated = maxsize + 1
    /\ Len(lru) = maxsize
    /\ calls[Len(calls)].args[1] = GeneratedHeader(1)
    /\ lru_hits(lru, make_key(GeneratedHeader(2))) = {}

(***************************************************************************)
(* C25                                                                     *)
(***************************************************************************)
\* The tables process_data holds, in the order it gets them.
Held == <<df_status, df_status_processed, df_rastreabilidade, df_melted,
          enderecos_rastreabilidade, df_estoque, df_estoque_detalhado,
          enderecos_estoque, df_merged>>
HeldAfter == <<df_status', df_status_processed', df_rastreabilidade', df_melted',
               enderecos_rastreabilidade', df_estoque', df_estoque_detalhado',
               enderecos_estoque', df_merged'>>

StagesLeaveTables ==
    pc \in {"status", "rastreabilidade", "estoque", "merge"} =>
        \A k \in 1..Len(Held) : Ran(Held[k]) => HeldAfter[k] = Held[k]

C25_WitnessFailed ==
    /\ pc = "done"
    /\ df_final = None
    /\ IsTable(df_estoque)
    /\ "QtdAtual" \in df_estoque.columns
    /\ ~IsTable(df_estoque_detalhado)

(***************************************************************************)
(* cli.py: main.  The command line names the three input files and may     *)
(* carry --validate-only.  The nine checks are made one by one, then the   *)
(* processor is created and its six stages are invoked.  The class         *)
(* RastreabilidadeProcessor is imported from app; what its methods return  *)
(* is an input of main: True or False (or an exception) for the five       *)
(* stages, a DataFrame or None for generate_final_report.                  *)
(***************************************************************************)
\* The files a command line can name: missing, of an unsupported format, too
\* large, and valid.
CliPaths ==
    {[exists |-> FALSE, name |-> <<"f", ".", "c", "s", "v">>, st_size |-> 0],
     [exists |-> TRUE, name |-> <<"f", ".", "t", "x", "t">>, st_size |-> 1],
     [exists |-> TRUE, name |-> <<"f", ".", "x", "l", "s">>, st_size |-> MAX_FILE_SIZE + 1],
     [exists |-> TRUE, name |-> <<"f", ".", "X", "L", "S", "X">>, st_size |-> MAX_FILE_SIZE]}

\* args = parser.parse_args()
CliArgs ==
    [rastreabilidade : CliPaths, status : CliPaths, estoque : CliPaths,
     validate_only : BOOLEAN]

CliInit ==
    /\ AppIdle
    /\ now = 0
    /\ lru = <<>>
    /\ calls = <<>>
    /\ argv \in CliArgs
    /\ cli_pc = "validate"
    /\ checked = <<>>
    /\ exit_status = None
    /\ processor = None

\* sys.exit(status)
Exit(status) ==
    /\ exit_status' = [status |-> status]
    /\ cli_pc' = "exited"

\* The loop over the status file first.
validation_order_status_first == <<"status", "rastreabilidade", "estoque">>

\* for file_path, name in [(rastreabilidade_path, ...), (status_path, ...), (estoque_path, ...)]
validation_order == <<"rastreabilidade", "status", "estoque">>

\* The three tests of the loop body, in order.
validation_checks == <<"exists", "validate_file_format", "validate_file_size">>

check_passes(check, file_path) ==
    IF check = "exists" THEN file_path.exists
    ELSE IF check = "validate_file_format" THEN validate_file_format(file_path)
    ELSE validate_file_size(file_path)

\* One test of the validation loop: a test that fails ends the process with
\* status 1.
Validate ==
    /\ cli_pc = "validate"
    /\ LET k == Len(checked)
           file == validation_order[(k \div 3) + 1]
           check == validation_checks[(k % 3) + 1]
           passed == check_passes(check, argv[file])
       IN  /\ checked' = Append(checked, [file |-> file, check |-> check, passed |-> passed])
           /\ IF ~passed THEN Exit(1)
              ELSE IF k + 1 = 9 THEN cli_pc' = "validated" /\ UNCHANGED exit_status
              ELSE UNCHANGED <<cli_pc, exit_status>>
    /\ UNCHANGED <<app_vars, call_vars, argv, processor>>

\* if args.validate_only: sys.exit(0)
ValidateOnly ==
    /\ cli_pc = "validated"
    /\ argv.validate_only
    /\ Exit(0)
    /\ UNCHANGED <<app_vars, call_vars, argv, checked, processor>>

\* processor = RastreabilidadeProcessor()
CreateProcessor ==
    /\ cli_pc = "validated"
    /\ ~argv.validate_only
    /\ processor' = [invoked |-> <<>>]
    /\ cli_pc' = "load_data"
    /\ UNCHANGED <<app_vars, call_vars, argv, checked, exit_status>>

\* The five stages tested with `if not processor.stage(...)`, in the order of main.
cli_stages == <<"load_data", "process_rastreabilidade", "merge_with_status",
                "process_estoque", "apply_business_rules">>

\* What a stage of the processor returns or does.
StageOutcomes == {"True", "False", "raises"}
\* What generate_final_report returns or does.
ReportOutcomes == {"DataFrame", "None", "raises"}
\* What get_summary_stats returns or does.
StatsOutcomes == {"dict", "empty", "raises"}

Invoked(stage, outcome) ==
    processor' = [invoked |-> Append(processor.invoked, <<stage, outcome>>)]

\* A test that takes every result for a success.
stage_failed_never(outcome) == FALSE

\* `if not processor.stage(...)`
stage_failed(outcome) == outcome = "False"

\* if not processor.stage(...): logger.error(...); sys.exit(1).  An exception
\* of the stage reaches `except Exception`, which exits with status 1.
CallStage ==
    /\ \E k \in 1..Len(cli_stages) :
          /\ cli_pc = cli_stages[k]
          /\ \E outcome \in StageOutcomes :
                /\ Invoked(cli_stages[k], outcome)
                /\ IF outcome = "raises" \/ stage_failed(outcome) THEN Exit(1)
                   ELSE /\ cli_pc' = IF k < Len(cli_stages) THEN cli_stages[k + 1]
                                     ELSE "generate_final_report"
                        /\ UNCHANGED exit_status
    /\ UNCHANGED <<app_vars, call_vars, argv, checked>>

\* df_final = processor.generate_final_report(str(output_path));
\* if df_final is not None: ... else: sys.exit(1)
GenerateFinalReport ==
    /\ cli_pc = "generate_final_report"
    /\ \E outcome \in ReportOutcomes :
          /\ Invoked("generate_final_report", outcome)
          /\ IF outcome = "DataFrame"
             THEN cli_pc' = "get_summary_stats" /\ UNCHANGED exit_status
             ELSE Exit(1)
    /\ UNCHANGED <<app_vars, call_vars, argv, checked>>

\* stats = processor.get_summary_stats(), the logging of the statistics, and
\* the end of main: the process ends with status 0.
GetSummaryStats ==
    /\ cli_pc = "get_summary_stats"
    /\ \E outcome \in StatsOutcomes :
          /\ Invoked("get_summary_stats", outcome)
          /\ IF outcome = "raises" THEN Exit(1) ELSE Exit(0)
    /\ UNCHANGED <<app_vars, call_vars, argv, checked>>

CliNext ==
    \/ Validate
    \/ ValidateOnly
    \/ CreateProcessor
    \/ CallStage
    \/ GenerateFinalReport
    \/ GetSummaryStats

CliSpec == CliInit /\ [][CliNext]_vars

(***************************************************************************)
(* C26                                                                     *)
(***************************************************************************)
\* The six stages in the order the claim gives.
SixStages == <<"load_data", "process_rastreabilidade", "merge_with_status",
               "process_estoque", "apply_business_rules", "generate_final_report">>
StagesInvoked == SelectSeq(processor.invoked, LAMBDA c : c[1] # "get_summary_stats")
Succeeded(c) == c[2] \in {"True", "DataFrame"}

\* C26: the stages of the processor are invoked in the order load_data,
\* process_rastreabilidade, merge_with_status, process_estoque,
\* apply_business_rules, generate_final_report; a stage is invoked only
\* after every stage before it succeeded; when a stage has returned False
\* (None for the report) the process has exited with status 1; and a
\* process that was asked to process ends with status 0 only after all six
\* succeeded.
C26_StageOrderAndExit ==
    processor # None =>
        /\ Len(StagesInvoked) <= 6
        /\ \A k \in 1..Len(StagesInvoked) :
              /\ StagesInvoked[k][1] = SixStages[k]
              /\ k < Len(StagesInvoked) => Succeeded(StagesInvoked[k])
              /\ ~Succeeded(StagesInvoked[k]) => exit_status = [status |-> 1]
        /\ exit_status = [status |-> 0] =>
              /\ Len(StagesInvoked) = 6
              /\ \A k \in 1..6 : Succeeded(StagesInvoked[k])

\* A run that ended with status 1 at the fourth stage, which returned False.
C26_Witness ==
    /\ processor # None
    /\ Len(processor.invoked) = 4
    /\ processor.invoked[4] = <<"process_estoque", "False">>
    /\ exit_status = [status |-> 1]

\* A run whose six stages succeeded and that ended with status 0.
C26_WitnessSuccess ==
    /\ processor # None
    /\ Len(StagesInvoked) = 6
    /\ exit_status = [status |-> 0]

(***************************************************************************)
(* C27                                                                     *)
(***************************************************************************)
\* The nine checks in the order the claim gives: traceability, status,
\* stock, and for each existence, extension, size.
NineChecks ==
    <<<<"rastreabilidade", "exists">>, <<"rastreabilidade", "validate_file_format">>,
      <<"rastreabilidade", "validate_file_size">>,
      <<"status", "exists">>, <<"status", "validate_file_format">>,
      <<"status", "validate_file_size">>,
      <<"estoque", "exists">>, <<"estoque", "validate_file_format">>,
      <<"estoque", "validate_file_size">>>>

\* C27: the checks are made in the order traceability, status, stock, and
\* for each file existence, extension, size; a check is made only after
\* every check before it passed; after a failed check the process has
\* exited with status 1 with no processor created; the processor exists
\* only after the nine checks passed; and with --validate-only no processor
\* is ever created and status 0 means that the nine checks passed.
C27_ValidationOrderAndExit ==
    /\ Len(checked) <= 9
    /\ \A k \in 1..Len(checked) :
          /\ <<checked[k].file, checked[k].check>> = NineChecks[k]
          /\ k < Len(checked) => checked[k].passed
          /\ ~checked[k].passed => exit_status = [status |-> 1] /\ processor = None
    /\ processor # None =>
          /\ Len(checked) = 9
          /\ \A k \in 1..9 : checked[k].passed
    /\ (cli_pc # "idle" /\ argv.validate_only) =>
          /\ processor = None
          /\ exit_status = [status |-> 0] =>
                /\ Len(checked) = 9
                /\ \A k \in 1..9 : checked[k].passed

\* The stock file is too large: the ninth check failed after eight passed.
C27_Witness ==
    /\ Len(checked) = 9
    /\ ~checked[9].passed
    /\ exit_status = [status |-> 1]

\* --validate-only with three valid files: status 0.
C27_WitnessValidateOnly ==
    /\ cli_pc = "exited"
    /\ argv.validate_only
    /\ exit_status = [status |-> 0]

(***************************************************************************)
(* C28                                                                     *)
(***************************************************************************)
\* The step ends a generate whose process_data returned None.
GenerateFailed == pc = "done" /\ pc' = "idle" /\ df_final = None

\* The step is a generate pressed with an uploader empty.
GenerateMissing ==
    /\ pc = "idle"
    /\ pc' = "idle"
    /\ messages' = <<Msg("warning", "main", <<>>, <<>>)>>

\* The download section shows the report stored in this state.
Offered(state) == Stored(state) /\ state.final_report.rows # <<>>

ReportKept ==
    /\ (GenerateFailed \/ GenerateMissing) =>
          /\ session_state' = session_state
          /\ download_offered' = Offered(session_state)
          /\ download_offered => download_offered'
    /\ pc \notin {"idle", "done"} => session_state' = session_state
    /\ (Stored(session_state) /\ ~Stored(session_state')) => Cleared
    /\ (/\ Stored(session_state)
        /\ Stored(session_state')
        /\ session_state'.final_report # session_state.final_report)
          => GenerateSucceeded

\* C28: a generate that fails, or that is pressed with an uploader empty,
\* leaves st.session_state as it was, and the download section after it
\* shows the report stored before, if it was shown before; no step of a
\* run in progress touches the stored report; a stored report is removed
\* only by the clear action and replaced only by a generate that succeeded.
C28_FailedGenerateKeepsReport == [][ReportKept]_vars

\* A report was stored and offered, a file was removed, and generate was
\* pressed: the warning, and the report still offered.
C28_Witness ==
    /\ pc = "idle"
    /\ last_interaction = "generate_missing"
    /\ Stored(session_state)
    /\ download_offered

\* A report was stored and offered, and a later generate failed.
C28_WitnessFailed ==
    /\ pc = "idle"
    /\ last_interaction = "generate_failed"
    /\ session_state.clear_count = 0
    /\ Stored(session_state)
    /\ session_state.final_report.rows # <<>>
    /\ download_offered

(***************************************************************************)
(* C29                                                                     *)
(***************************************************************************)
\* The number a positive quantity cell denotes, as the report carries it.
PositiveValue(cell) ==
    CASE cell = <<"2">> -> <<4>>
      [] cell = <<"3">> -> <<6>>
      [] cell = <<"2", ".", "5">> -> <<5>>

\* The status rows that survive the filter, by their position.
Surviving ==
    {i \in 1..Len(df_status.rows) :
        df_status.rows[i].QuantidadeNaoAlocada \in PositiveCells}

\* The report rows expanded from a status row such as row i.
ExpandedFrom(i) ==
    {j \in 1..Len(df_final.rows) :
        /\ df_final.rows[j].Item = df_status.rows[i].Item
        /\ df_final.rows[j].Descricao = df_status.rows[i].Descricao
        /\ df_final.rows[j].QuantidadeNaoAlocada
              = PositiveValue(df_status.rows[i].QuantidadeNaoAlocada)}

\* The surviving status rows that are like row i.
Like(i) ==
    {k \in Surviving :
        /\ df_status.rows[k].Item = df_status.rows[i].Item
        /\ df_status.rows[k].Descricao = df_status.rows[i].Descricao
        /\ PositiveValue(df_status.rows[k].QuantidadeNaoAlocada)
              = PositiveValue(df_status.rows[i].QuantidadeNaoAlocada)}

C29_WitnessDescriptions ==
    /\ Reported
    /\ Cardinality(Surviving) = 2
    /\ df_status.rows[1].Item = df_status.rows[2].Item
    /\ df_status.rows[1].Descricao # df_status.rows[2].Descricao
    /\ df_status.rows[1].QuantidadeNaoAlocada # df_status.rows[2].QuantidadeNaoAlocada
    /\ ExpandedFrom(1) # {}
    /\ ExpandedFrom(2) # {}

(***************************************************************************)
(* C30                                                                     *)
(***************************************************************************)
\* The parser chosen for the file gives a header row of at least one column
\* and no data row.
HeaderOnly(file) ==
    /\ ~IsRaised(ParserOutcome(file))
    /\ ParserOutcome(file).header # <<>>
    /\ ParserOutcome(file).rows = <<>>

ShownBy(at) == \E i \in 1..Len(messages) : messages[i] = Msg("error", at, <<>>, <<>>)

\* C30: a file of a supported name that holds a header row and no data row
\* is never loaded as a table.  In the application its load leaves None
\* after the error message of read_file_cached, and the run ends with None,
\* not with a report; no table loaded by read_file is without rows.
\* load_file returns None for such a path.
C30_HeaderOnlyNeverLoads ==
    /\ pc \notin {"load_file", "loaded"} =>
         \A i \in 1..3 :
            LET file == AppLoads[i][1]
                df == AppLoads[i][2]
            IN  /\ IsTable(df) => df.rows # <<>>
                /\ (file.name \in AppNames /\ HeaderOnly(file)) =>
                      /\ ~IsTable(df)
                      /\ Ran(df) => df = None /\ ShownBy("read_file_cached")
                      /\ pc = "done" => df_final = None /\ Ran(df)
    /\ (/\ pc = "loaded"
        /\ status_file.exists
        /\ status_file.name \in UtilsNames
        /\ status_file.st_size <= MAX_FILE_SIZE
        /\ HeaderOnly(status_file)) => df_status = None

\* The stock file holds its header row only: after two stages that
\* succeeded its load left None and the run is over with None.
C30_Witness ==
    /\ pc = "done"
    /\ estoque_file.name \in AppNames
    /\ HeaderOnly(estoque_file)
    /\ IsTable(enderecos_rastreabilidade)
    /\ df_estoque = None
    /\ df_final = None

\* load_file on a path that exists, of a supported name and size, whose
\* file holds a header row only.
C30_WitnessLoadFile ==
    /\ pc = "loaded"
    /\ status_file.exists
    /\ status_file.name = N_CSV
    /\ status_file.st_size = MAX_FILE_SIZE
    /\ HeaderOnly(status_file)
    /\ df_status = None

====
